---------------------------- MODULE Spec2Model ----------------------------
(***************************************************************************)
(* Model of the statistics engine of src/app.py: tokenisation filter       *)
(* (extract_words), stopword handling, frequency ranking                   *)
(* (calculate_frequency), co-occurrence network (generate_network) and     *)
(* characteristic words (calculate_characteristic_words).                  *)
(*                                                                         *)
(* Strings are sequences of character codes (ASCII codes stand in for the  *)
(* Japanese characters of real data): Python compares strings code point   *)
(* by code point, str.isdigit looks at every character, len counts them.   *)
(* A text is what the morphological analyser makes of it: the ordered      *)
(* sequence of tokens (surface, base_form, part_of_speech); a value that   *)
(* is not a string (NaN, None, a number) carries no tokens.                *)
(***************************************************************************)
EXTENDS Integers, Sequences, FiniteSets, TLC

VARIABLES
    df_original,        \* the uploaded table: a sequence of rows [text, attr]
    analyzed,           \* 'df_analyzed' in st.session_state
    words,              \* df_analyzed['words']: one word list per row
    dynamic_stopwords,  \* st.session_state.dynamic_stopwords (a string)
    freq_call,          \* last call of calculate_frequency: arguments and table
    net_call,           \* last call of generate_network: arguments and outcome
    chi2_call,          \* last call of calculate_characteristic_words
    tokenized,          \* rows whose text was handed to tokenizer.tokenize
    session_state,      \* the other keys of st.session_state (display caches, widgets)
    cache_data,         \* the entries st.cache_data keeps for calculate_characteristic_words
    display,            \* what the last rerun computed and rendered
    value_errors,       \* the (word, table) pairs on which chi2_contingency raises ValueError
    api,                \* one run of call_gemini_api: position, loop variables, requests, outcome
    plotly_call,        \* last call of create_plotly_treemap: argument and outcome
    ai_input_call,      \* last making of the text handed to the AI: arguments and outcome
    sent                \* the requests made to the AI endpoint since the last 'run analysis'

vars == <<df_original, analyzed, words, dynamic_stopwords, freq_call, net_call, chi2_call,
          tokenized, session_state, cache_data, display, value_errors, api, plotly_call, ai_input_call,
          sent>>

\* the state of the result tabs, which the calls of single functions leave alone
session_vars == <<session_state, cache_data, display, sent>>

\* a result that is not in session state / a function not called yet
NONE == [called |-> FALSE]

\* a missing cell of the table (NaN)
NULL == "NaN"

-----------------------------------------------------------------------------
(* Strings                                                                 *)

Range(s) == {s[i] : i \in DOMAIN s}

\* TLC computes an operator's argument when it is first used.  Evaluated(x)
\* uses x: a loop that passes its accumulator on tests it first, so that the
\* accumulator is computed step by step and not as one nested expression
\* when the loop ends.  It is TRUE of every value.
Evaluated(x) == x = x

\* str.isdigit(): at least one character and every character a digit
isdigit(s) == Len(s) > 0 /\ \A i \in DOMAIN s : s[i] \in 48..57

\* Python's < on str: first differing code point decides, a proper prefix is smaller
RECURSIVE StrLess(_, _)
StrLess(s, t) ==
    IF t = <<>> THEN FALSE
    ELSE IF s = <<>> THEN TRUE
    ELSE IF Head(s) # Head(t) THEN Head(s) < Head(t)
    ELSE StrLess(Tail(s), Tail(t))

\* tuple comparison of two pairs of strings
PairLess(p, q) == StrLess(p[1], q[1]) \/ (p[1] = q[1] /\ StrLess(p[2], q[2]))

isspace(c) == c \in {9, 10, 13, 32}

RECURSIVE lstrip(_)
lstrip(s) == IF s # <<>> /\ isspace(Head(s)) THEN lstrip(Tail(s)) ELSE s

RECURSIVE rstrip(_)
rstrip(s) ==
    IF s # <<>> /\ isspace(s[Len(s)]) THEN rstrip(SubSeq(s, 1, Len(s) - 1)) ELSE s

\* str.strip()
strip(s) == rstrip(lstrip(s))

\* str.split(','): the pieces between commas, empty pieces included
RECURSIVE SplitFrom(_, _, _)
SplitFrom(s, cur, acc) ==
    IF s = <<>> THEN Append(acc, cur)
    ELSE IF Head(s) = 44 THEN SplitFrom(Tail(s), <<>>, Append(acc, cur))
    ELSE SplitFrom(Tail(s), Append(cur, Head(s)), acc)

split(s) == SplitFrom(s, <<>>, <<>>)

-----------------------------------------------------------------------------
(* Stopwords                                                               *)

\* The fixed baseline list.  Three of its members stand for the three kinds
\* the list holds: a one-character particle ('の'), a noun of two characters
\* ('こと') and a verb of two characters ('する').
BASE_STOPWORDS == { <<110>>, <<107, 111>>, <<115, 117>> }

\* set(w.strip() for w in dynamic.split(',') if w.strip())
dynamic_sw_set(s) == {strip(w) : w \in {x \in Range(split(s)) : strip(x) # <<>>}}

\* mutant: the user's list takes the place of the baseline list
current_stopwords_set_DynamicOnly(s) ==
    IF dynamic_sw_set(s) = {} THEN BASE_STOPWORDS ELSE dynamic_sw_set(s)

\* BASE_STOPWORDS.union(dynamic_sw_set)
current_stopwords_set(s) == BASE_STOPWORDS \cup dynamic_sw_set(s)

-----------------------------------------------------------------------------
(* Tokenizer filter                                                        *)

\* token.part_of_speech.split(',')[0]: the coarse class is the first field
CoarsePos(token) == token.part_of_speech[1]

\* '名詞', '動詞', '形容詞'
RetainedPos == {"noun", "verb", "adjective"}

\* mutant: the base form is not tested for digits
TokenKept_SurfaceDigitsOnly(token) ==
    /\ ~isdigit(token.surface)
    /\ CoarsePos(token) \in RetainedPos
    /\ Len(token.base_form) > 1

\* the loop body of extract_words: TRUE when the token's base form is appended
TokenKept(token) ==
    /\ ~isdigit(token.surface)
    /\ ~isdigit(token.base_form)
    /\ CoarsePos(token) \in RetainedPos
    /\ Len(token.base_form) > 1

\* mutant: the tokenizer is called on every value
UsesTokenizer_Always(text) == TRUE

\* mutant: baseline stopwords are dropped while tokenizing
extract_words_DropsStopwords(text) ==
    IF ~text.is_str THEN <<>>
    ELSE LET kept == SelectSeq(text.tokens,
                               LAMBDA t : TokenKept(t) /\ t.base_form \notin BASE_STOPWORDS)
         IN  [i \in 1..Len(kept) |-> kept[i].base_form]

\* if not isinstance(text, str): return [] comes before the tokenizer
UsesTokenizer(text) == text.is_str

extract_words(text) ==
    IF ~UsesTokenizer(text) THEN <<>>
    ELSE LET kept == SelectSeq(text.tokens, TokenKept)
         IN  [i \in 1..Len(kept) |-> kept[i].base_form]

-----------------------------------------------------------------------------
(* collections.Counter: a dict that remembers the order in which its keys  *)
(* were first inserted                                                     *)

EmptyCounter == [keys |-> <<>>, cnt |-> <<>>]

\* mutant: a key seen again is not counted again
CounterInc_NoIncrement(c, key) ==
    IF \E i \in DOMAIN c.keys : c.keys[i] = key
    THEN c
    ELSE [keys |-> Append(c.keys, key), cnt |-> Append(c.cnt, 1)]

\* counter[key] += 1
CounterInc(c, key) ==
    IF \E i \in DOMAIN c.keys : c.keys[i] = key
    THEN LET i == CHOOSE j \in DOMAIN c.keys : c.keys[j] = key
         IN  [c EXCEPT !.cnt[i] = @ + 1]
    ELSE [keys |-> Append(c.keys, key), cnt |-> Append(c.cnt, 1)]

\* for key in seq: c[key] += 1  (Counter(iterable) when c is empty).  The
\* loop runs from the first element to the last; it is written over the
\* two halves of seq so that its evaluation does not nest once per element.
RECURSIVE CounterOf(_, _)
CounterOf(seq, c) ==
    IF seq = <<>> \/ ~Evaluated(c) THEN c
    ELSE IF Len(seq) = 1 THEN CounterInc(c, seq[1])
    ELSE LET h == Len(seq) \div 2
         IN  CounterOf(SubSeq(seq, h + 1, Len(seq)), CounterOf(SubSeq(seq, 1, h), c))

\* counter.items(): (key, count) in insertion order
CounterItems(c) == [i \in DOMAIN c.keys |-> <<c.keys[i], c.cnt[i]>>]

\* mutant: an item overtakes the earlier items of the same count
InsertByCount_Unstable(sorted, item) ==
    LET k == Cardinality({i \in DOMAIN sorted : sorted[i][2] > item[2]})
    IN  SubSeq(sorted, 1, k) \o <<item>> \o SubSeq(sorted, k + 1, Len(sorted))

\* sorted(items, key=count, reverse=True): stable, so among equal counts the
\* item inserted first stays first.  An item goes behind every item already
\* placed whose count is at least its own.
InsertByCount(sorted, item) ==
    LET k == Cardinality({i \in DOMAIN sorted : sorted[i][2] >= item[2]})
    IN  SubSeq(sorted, 1, k) \o <<item>> \o SubSeq(sorted, k + 1, Len(sorted))

\* the items are placed one after the other, from the first to the last
\* (written over the two halves of the list, like CounterOf)
RECURSIVE SortByCount(_, _)
SortByCount(items, acc) ==
    IF items = <<>> \/ ~Evaluated(acc) THEN acc
    ELSE IF Len(items) = 1 THEN InsertByCount(acc, items[1])
    ELSE LET h == Len(items) \div 2
         IN  SortByCount(SubSeq(items, h + 1, Len(items)),
                         SortByCount(SubSeq(items, 1, h), acc))

Min(a, b) == IF a < b THEN a ELSE b

Max(a, b) == IF a > b THEN a ELSE b

\* Counter.most_common(n) = heapq.nlargest(n, items, key=count), which is
\* sorted(items, key=count, reverse=True)[:n]
most_common(c, n) ==
    LET s == SortByCount(CounterItems(c), <<>>)
    IN  SubSeq(s, 1, Min(Max(n, 0), Len(s)))

-----------------------------------------------------------------------------
(* Frequency ranking                                                       *)

\* the distinct entries of a list in order of first appearance
\* (pandas Series.unique(), dict.fromkeys)
RECURSIVE FirstOccurrences(_, _)
FirstOccurrences(ws, acc) ==
    IF ws = <<>> \/ ~Evaluated(acc) THEN acc
    ELSE FirstOccurrences(Tail(ws),
                          IF Head(ws) \in Range(acc) THEN acc ELSE Append(acc, Head(ws)))

\* the number of entries of a list that equal w (Counter(list)[w])
Occurrences(words_list, w) == Cardinality({i \in DOMAIN words_list : words_list[i] = w})

\* [word for sublist in df['words'] for word in sublist]
RECURSIVE Flatten(_)
Flatten(lists) == IF lists = <<>> THEN <<>> ELSE Head(lists) \o Flatten(Tail(lists))

\* pd.DataFrame: its column labels and its rows
DataFrame(columns, rows) == [columns |-> columns, rows |-> rows]

\* mutant: the stopword filter is left out
calculate_frequency_Unfiltered(_words_list, _stopwords_set, top_n) ==
    IF _words_list = <<>> THEN DataFrame(<<"Rank", "Word", "Frequency">>, <<>>)
    ELSE LET word_freq == most_common(CounterOf(_words_list, EmptyCounter), top_n)
         IN  DataFrame(<<"Rank", "Word", "Frequency">>,
                 [i \in DOMAIN word_freq |->
                     [Rank |-> (i - 1) + 1, Word |-> word_freq[i][1],
                      Frequency |-> word_freq[i][2]]])

\* mutant: without words a frame without columns is returned
calculate_frequency_EmptyNoColumns(_words_list, _stopwords_set, top_n) ==
    LET filtered_words == SelectSeq(_words_list, LAMBDA w : w \notin _stopwords_set)
    IN  IF filtered_words = <<>> THEN DataFrame(<<>>, <<>>)
        ELSE LET word_freq == most_common(CounterOf(filtered_words, EmptyCounter), top_n)
             IN  DataFrame(<<"Rank", "Word", "Frequency">>,
                     [i \in DOMAIN word_freq |->
                         [Rank |-> (i - 1) + 1, Word |-> word_freq[i][1],
                          Frequency |-> word_freq[i][2]]])

calculate_frequency(_words_list, _stopwords_set, top_n) ==
    LET filtered_words == SelectSeq(_words_list, LAMBDA w : w \notin _stopwords_set)
    IN  IF filtered_words = <<>> THEN DataFrame(<<"Rank", "Word", "Frequency">>, <<>>)
        ELSE LET word_freq == most_common(CounterOf(filtered_words, EmptyCounter), top_n)
             IN  DataFrame(<<"Rank", "Word", "Frequency">>,
                     [i \in DOMAIN word_freq |->
                         [Rank |-> (i - 1) + 1, Word |-> word_freq[i][1],
                          Frequency |-> word_freq[i][2]]])

-----------------------------------------------------------------------------
(* Word cloud                                                              *)

\* WordCloud(max_words=100)
MAX_WORDS == 100

\* a figure that was not drawn (None)
NoFig == [drawn |-> FALSE]

\* generate_wordcloud: the pair (fig, error) returned; the figure shows the
\* max_words most frequent words that are outside the stopword set
generate_wordcloud(_words_list, font_path, _stopwords_set) ==
    LET filtered_words == SelectSeq(_words_list, LAMBDA w : w \notin _stopwords_set)
    IN  IF filtered_words = <<>>
        THEN [fig |-> NoFig, error |-> "no words to display"]
        ELSE LET word_freq == CounterOf(filtered_words, EmptyCounter)
             IN  IF font_path = NULL
                 THEN [fig |-> [drawn |-> TRUE, frequencies |-> <<>>],
                       error |-> "font not found"]
                 ELSE [fig |-> [drawn |-> TRUE,
                                frequencies |-> most_common(word_freq, MAX_WORDS)],
                       error |-> NULL]

-----------------------------------------------------------------------------
(* Co-occurrence network                                                   *)

\* the number of pairs kept: co_occur_counter.most_common(70)
TOP_PAIRS == 70

\* sorted(list(S)) for a set of strings
RECURSIVE SortedList(_)
SortedList(S) ==
    IF S = {} THEN <<>>
    ELSE LET m == CHOOSE x \in S : \A y \in S \ {x} : StrLess(x, y)
         IN  <<m>> \o SortedList(S \ {m})

\* mutant: the words of a document are sorted but not made unique
RECURSIVE InsertSorted(_, _)
InsertSorted(sorted, w) ==
    IF sorted = <<>> THEN <<w>>
    ELSE IF StrLess(w, Head(sorted)) THEN <<w>> \o sorted
    ELSE <<Head(sorted)>> \o InsertSorted(Tail(sorted), w)

RECURSIVE SortedWithRepeats(_)
SortedWithRepeats(ws) ==
    IF ws = <<>> THEN <<>> ELSE InsertSorted(SortedWithRepeats(Tail(ws)), Head(ws))

unique_words_NotUnique(doc_words, _stopwords_set) ==
    SortedWithRepeats(SelectSeq(doc_words, LAMBDA w : w \notin _stopwords_set))

\* mutant: the unique words are taken in order of appearance, not sorted
unique_words_NotSorted(doc_words, _stopwords_set) ==
    FirstOccurrences(SelectSeq(doc_words, LAMBDA w : w \notin _stopwords_set), <<>>)

\* sorted(list(set(word for word in words if word not in _stopwords_set)))
unique_words(doc_words, _stopwords_set) ==
    SortedList({w \in Range(doc_words) : w \notin _stopwords_set})

\* itertools.combinations(seq, 2): the pairs (seq[i], seq[j]), i < j, ordered
\* by i and then by j
combinations2(seq) ==
    Flatten([i \in 1..(Len(seq) - 1) |->
                [k \in 1..(Len(seq) - i) |-> <<seq[i], seq[i + k]>>]])

\* the loop over the documents: every pair of a document is counted once
RECURSIVE CountDocs(_, _, _)
CountDocs(_words_df, _stopwords_set, c) ==
    IF _words_df = <<>> \/ ~Evaluated(c) THEN c
    ELSE CountDocs(Tail(_words_df), _stopwords_set,
                   CounterOf(combinations2(unique_words(Head(_words_df), _stopwords_set)), c))

\* mutant: the documents are gone through from the last to the first
RECURSIVE CountDocsBackwards(_, _, _)
CountDocsBackwards(_words_df, _stopwords_set, c) ==
    IF _words_df = <<>> \/ ~Evaluated(c) THEN c
    ELSE CountDocsBackwards(SubSeq(_words_df, 1, Len(_words_df) - 1), _stopwords_set,
             CounterOf(combinations2(unique_words(_words_df[Len(_words_df)], _stopwords_set)), c))

co_occur_counter_Backwards(_words_df, _stopwords_set) ==
    CountDocsBackwards(_words_df, _stopwords_set, EmptyCounter)

co_occur_counter(_words_df, _stopwords_set) ==
    CountDocs(_words_df, _stopwords_set, EmptyCounter)

\* mutant: the first pairs counted are taken, whatever their weight
top_pairs_Unsorted(counter) ==
    SubSeq(CounterItems(counter), 1, Min(TOP_PAIRS, Len(counter.keys)))

top_pairs(counter) == most_common(counter, TOP_PAIRS)

\* networkx.Graph.add_edge(w1, w2, weight=weight): an undirected edge; adding
\* an edge between the same two nodes again replaces its weight
add_edge(G, w1, w2, weight) ==
    [nodes |-> G.nodes \cup {w1, w2},
     edges |-> {e \in G.edges : e.ends # {w1, w2}}
                   \cup {[ends |-> {w1, w2}, weight |-> weight]}]

\* for (w1, w2), weight in top_pairs: G.add_edge(w1, w2, weight=weight)
\* (written over the two halves of the list, like CounterOf)
RECURSIVE AddEdges(_, _)
AddEdges(G, pairs) ==
    IF pairs = <<>> \/ ~Evaluated(G) THEN G
    ELSE IF Len(pairs) = 1
         THEN add_edge(G, pairs[1][1][1], pairs[1][1][2], pairs[1][2])
    ELSE LET h == Len(pairs) \div 2
         IN  AddEdges(AddEdges(G, SubSeq(pairs, 1, h)), SubSeq(pairs, h + 1, Len(pairs)))

\* node size: the word's frequency over all documents times 30, clamped
node_sizes(G, _words_df, _stopwords_set) ==
    LET all_words_in_docs ==
            SelectSeq(Flatten(_words_df), LAMBDA w : w \notin _stopwords_set)
    IN  [node \in G.nodes |->
            LET n == Occurrences(all_words_in_docs, node)
            IN  Max(500, Min((IF n = 0 THEN 1 ELSE n) * 30, 5000))]

\* generate_network: the counter, the pairs kept, and either the graph that
\* is drawn or no figure and the message that there are too few pairs
\* mutant: the graph is built and drawn also when no pair was counted
generate_network_NoEarlyReturn(_words_df, font_path, _stopwords_set) ==
    LET counter == co_occur_counter(_words_df, _stopwords_set)
        pairs   == top_pairs(counter)
        G       == AddEdges([nodes |-> {}, edges |-> {}], pairs)
    IN  [co_occur_counter |-> counter, top_pairs |-> pairs,
         fig |-> [G |-> G, node_sizes |-> node_sizes(G, _words_df, _stopwords_set)],
         error |-> NULL, stages |-> <<"count", "select", "graph", "draw">>]

\* generate_network: the pair (fig, error) returned, with the counter, the
\* selected pairs and the stages gone through up to the return
generate_network(_words_df, font_path, _stopwords_set) ==
    LET counter == co_occur_counter(_words_df, _stopwords_set)
        pairs   == top_pairs(counter)
    IN  IF pairs = <<>>
        THEN [co_occur_counter |-> counter, top_pairs |-> pairs,
              fig |-> NULL, error |-> "insufficient co-occurrence pairs",
              stages |-> <<"count", "select">>]
        ELSE LET G == AddEdges([nodes |-> {}, edges |-> {}], pairs)
             IN  [co_occur_counter |-> counter, top_pairs |-> pairs,
                  fig |-> [G |-> G, node_sizes |-> node_sizes(G, _words_df, _stopwords_set)],
                  error |-> NULL, stages |-> <<"count", "select", "graph", "draw">>]

-----------------------------------------------------------------------------
(* Characteristic words (chi-squared test)                                 *)

\* the number of words kept per category: characteristic_words[:20]
TOP_WORDS == 20

\* Rationals are pairs <<numerator, denominator>> of a natural number and a
\* positive one.  x < y is decided on the whole parts and then, turned over,
\* on the remainders, so that no product leaves the integer range.
RECURSIVE RatLess(_, _)
RatLess(x, y) ==
    LET qx == x[1] \div x[2]
        qy == y[1] \div y[2]
        rx == x[1] % x[2]
        ry == y[1] % y[2]
    IN  IF qx # qy THEN qx < qy
        ELSE IF ry = 0 THEN FALSE
        ELSE IF rx = 0 THEN TRUE
        ELSE RatLess(<<y[2], ry>>, <<x[2], rx>>)

\* scipy.stats.chi2_contingency([[a, b], [c, d]]) with its default Yates
\* correction, for a table without a zero marginal (dof = 1):
\*   expected[i, j] = row_i * col_j / N, so every |observed - expected| is
\*   |ad - bc| / N; each observed cell is moved min(0.5, |diff|) towards its
\*   expected value; chi2 = sum (observed - expected)^2 / expected
\*        = N * (|ad - bc| - N/2)^2 / (row_1 * row_2 * col_1 * col_2)
\*   when |ad - bc| > N/2, and 0 otherwise.
\* The p-value is the survival function of the chi-squared distribution
\* with one degree of freedom at chi2: it falls strictly as chi2 grows, and
\* it is kept as the statistic it is the survival function of.
chi2_contingency(a, b, c, d) ==
    LET N    == a + b + c + d
        D    == IF a * d >= b * c THEN a * d - b * c ELSE b * c - a * d
        chi2 == IF 2 * D > N
                THEN <<N * (2 * D - N) * (2 * D - N), 4 * (a + b) * (c + d) * (a + c) * (b + d)>>
                ELSE <<0, 1>>
    IN  [chi2 |-> chi2, p |-> [sf_of |-> chi2], dof |-> 1,
         expected00 |-> <<(a + b) * (a + c), N>>]

\* p < q for two p-values
PLess(p, q) == RatLess(q.sf_of, p.sf_of)

\* p < 0.05: the statistic is above the 95% point of the distribution with
\* one degree of freedom, 3.8414588...; no table of fewer than 22 documents
\* has a statistic between 3.81 and 3.85
PBelow05(p) == RatLess(<<38415, 10000>>, p.sf_of)

\* mutant: the direction of the association is not looked at
IsCharacteristic_NoDirection(a, test) == PBelow05(test.p)

\* mutant: the significance is not looked at
IsCharacteristic_NoSignificance(a, test) == RatLess(test.expected00, <<a, 1>>)

\* if p < 0.05 and a > expected[0, 0]
IsCharacteristic(a, test) ==
    PBelow05(test.p) /\ RatLess(test.expected00, <<a, 1>>)

\* sum(1 for words_list in sub_df['words'] if word in words_list)
DocsHolding(rows, word) ==
    Cardinality({i \in DOMAIN rows : word \in Range(rows[i].words)})

\* mutant: d is taken from all documents, not from those outside V
ContingencyTable_DFromTotal(attr_df, non_attr_df, total_docs, word) ==
    LET a == DocsHolding(attr_df, word)
        b == DocsHolding(non_attr_df, word)
    IN  [a |-> a, b |-> b, c |-> Len(attr_df) - a, d |-> total_docs - b]

\* mutant: b counts the documents of V without the word, as c does
ContingencyTable_BFromCategory(attr_df, non_attr_df, total_docs, word) ==
    LET a == DocsHolding(attr_df, word)
        b == Len(attr_df) - a
    IN  [a |-> a, b |-> b, c |-> Len(attr_df) - a, d |-> (total_docs - Len(attr_df)) - b]

\* the cells a, b, c, d of the 2x2 table of a category and a word
ContingencyTable(attr_df, non_attr_df, total_docs, word) ==
    LET total_docs_in_attr     == Len(attr_df)
        total_docs_not_in_attr == total_docs - total_docs_in_attr
        a == DocsHolding(attr_df, word)
        b == DocsHolding(non_attr_df, word)
    IN  [a |-> a, b |-> b, c |-> total_docs_in_attr - a, d |-> total_docs_not_in_attr - b]

\* if (a+b) == 0 or (a+c) == 0 or (b+d) == 0 or (c+d) == 0: continue
HasZeroMarginal(t) ==
    (t.a + t.b) = 0 \/ (t.a + t.c) = 0 \/ (t.b + t.d) = 0 \/ (t.c + t.d) = 0

\* try: chi2_contingency(contingency_table) ... except ValueError: continue.
\* The library raises ValueError on the pairs of value_errors; the word is
\* then passed over.
Raises(word, t) == [word |-> word, table |-> t] \in value_errors

\* the words of one category in the order in which they are appended: the
\* loop over all_words (in the order word_order), skipping a word with a
\* zero marginal or without a significant positive association
\* mutant: a ValueError ends the loop over the words of the category
CategoryWords_ErrorEndsLoop(attr_df, non_attr_df, total_docs, word_order) ==
    LET Failed(i) ==
            LET t == ContingencyTable(attr_df, non_attr_df, total_docs, word_order[i])
            IN  ~HasZeroMarginal(t) /\ Raises(word_order[i], t)
        Entry(i) ==
            LET t == ContingencyTable(attr_df, non_attr_df, total_docs, word_order[i])
            IN  IF HasZeroMarginal(t) \/ \E j \in 1..i : Failed(j)
                THEN <<>>
                ELSE LET test == chi2_contingency(t.a, t.b, t.c, t.d)
                     IN  IF IsCharacteristic(t.a, test)
                         THEN <<[word |-> word_order[i], p |-> test.p, chi2 |-> test.chi2]>>
                         ELSE <<>>
    IN  Flatten([i \in DOMAIN word_order |-> Entry(i)])

CategoryWords(attr_df, non_attr_df, total_docs, word_order) ==
    LET Entry(word) ==
            LET t == ContingencyTable(attr_df, non_attr_df, total_docs, word)
            IN  IF HasZeroMarginal(t)
                THEN <<>>
                ELSE IF Raises(word, t)
                THEN <<>>
                ELSE LET test == chi2_contingency(t.a, t.b, t.c, t.d)
                     IN  IF IsCharacteristic(t.a, test)
                         THEN <<[word |-> word, p |-> test.p, chi2 |-> test.chi2]>>
                         ELSE <<>>
    IN  Flatten([i \in DOMAIN word_order |-> Entry(word_order[i])])

\* what the loop over all_words does for one category: the table it builds
\* for each word, and whether chi2_contingency is called on it
CategoryTables(attr_value, attr_df, non_attr_df, total_docs, word_order) ==
    { LET t == ContingencyTable(attr_df, non_attr_df, total_docs, word_order[i])
      IN  [attr_value |-> attr_value, word |-> word_order[i], table |-> t,
           tested |-> ~HasZeroMarginal(t)] : i \in DOMAIN word_order }

\* list.sort(key=lambda x: x[1]): stable, rising p-value.  An entry goes
\* behind every entry already placed whose p-value is at most its own.
InsertByP(sorted, entry) ==
    LET k == Cardinality({i \in DOMAIN sorted : ~PLess(entry.p, sorted[i].p)})
    IN  SubSeq(sorted, 1, k) \o <<entry>> \o SubSeq(sorted, k + 1, Len(sorted))

\* mutant: the entries stay in the order in which they were appended
SortByP_NoSort(entries, acc) == acc \o entries

RECURSIVE SortByP(_, _)
SortByP(entries, acc) ==
    IF entries = <<>> \/ ~Evaluated(acc) THEN acc
    ELSE SortByP(Tail(entries), InsertByP(acc, Head(entries)))

\* set(word for sublist in _df['words'] for word in sublist
\*     if word not in _stopwords_set)
all_words(_df, _stopwords_set) ==
    {w \in UNION {Range(_df[i].words) : i \in DOMAIN _df} : w \notin _stopwords_set}

\* word_order goes through the set S once
IsOrdering(word_order, S) ==
    /\ Len(word_order) = Cardinality(S)
    /\ Range(word_order) = S

\* the orders in which the set may be gone through
Orderings(S) ==
    {o \in [1..Cardinality(S) -> S] : \A i \in DOMAIN o : \A j \in DOMAIN o : i # j => o[i] # o[j]}

\* mutant: only a column without any category is refused
TooFewCategories_None(unique_attrs) == Len(unique_attrs) < 1

\* if len(unique_attrs) < 2: return {"error": ...}
TooFewCategories(unique_attrs) == Len(unique_attrs) < 2

\* calculate_characteristic_words.  _df is a sequence of rows, each a record
\* of its columns and 'words'.  word_order is the order in which Python goes
\* through the set all_words, which the language leaves open.  The value is
\* the mapping returned (error, or results in the order of the keys),
\* together with the tables built on the way.
calculate_characteristic_words(_df, attribute_col, text_col, _stopwords_set, word_order) ==
    IF \E i \in DOMAIN _df : attribute_col \notin DOMAIN _df[i]
    THEN [error |-> "attribute column not found", results |-> <<>>, tables |-> {}]
    ELSE
    LET column == [i \in DOMAIN _df |-> _df[i][attribute_col]]
        unique_attrs == FirstOccurrences(SelectSeq(column, LAMBDA v : v # NULL), <<>>)
        total_docs == Len(_df)
        ResultOf(attr_value) ==
            LET attr_df     == SelectSeq(_df, LAMBDA r : r[attribute_col] = attr_value)
                non_attr_df == SelectSeq(_df, LAMBDA r : r[attribute_col] # attr_value)
            IN  IF Len(attr_df) = 0 \/ total_docs - Len(attr_df) = 0
                THEN <<>>
                ELSE LET characteristic_words ==
                             SortByP(CategoryWords(attr_df, non_attr_df, total_docs, word_order),
                                     <<>>)
                     IN  <<[attr_value |-> attr_value,
                            words |-> SubSeq(characteristic_words, 1,
                                             Min(TOP_WORDS, Len(characteristic_words)))]>>
        TablesOf(attr_value) ==
            LET attr_df     == SelectSeq(_df, LAMBDA r : r[attribute_col] = attr_value)
                non_attr_df == SelectSeq(_df, LAMBDA r : r[attribute_col] # attr_value)
            IN  IF Len(attr_df) = 0 \/ total_docs - Len(attr_df) = 0
                THEN {}
                ELSE CategoryTables(attr_value, attr_df, non_attr_df, total_docs, word_order)
    IN  IF TooFewCategories(unique_attrs)
        THEN [error |-> "fewer than 2 categories to compare", results |-> <<>>, tables |-> {}]
        ELSE [error |-> NULL,
              results |-> Flatten([k \in DOMAIN unique_attrs |-> ResultOf(unique_attrs[k])]),
              tables |-> UNION {TablesOf(unique_attrs[k]) : k \in DOMAIN unique_attrs}]

-----------------------------------------------------------------------------
(* call_gemini_api: the request to the generative endpoint                 *)

\* for i in range(5)
MAX_ATTEMPTS == 5

\* delay = 1000 (milliseconds)
INITIAL_DELAY == 1000

\* A string the function returns: which message it is, and the status or
\* text it carries
Returned(message, detail) ==
    [raised |-> FALSE, is_str |-> TRUE, message |-> message, detail |-> detail]

\* no call yet.  posts: the statuses of the responses (0 when requests.post
\* raised); sleeps: the seconds of each time.sleep; slept_before[k]: the
\* number of sleeps made before the k-th request; body: the body of the
\* response with status 200
ApiIdle ==
    [pc |-> "idle", secret |-> "none", i |-> 0, delay |-> INITIAL_DELAY, posts |-> <<>>,
     sleeps |-> <<>>, slept_before |-> <<>>,
     body |-> [is_json |-> FALSE, is_object |-> FALSE, candidates |-> <<>>],
     result |-> Returned("none", 0)]

\* mutant: only a missing key is refused
KeyUsable_EmptyPasses(secret) == secret # "missing"

\* apiKey = st.secrets["GEMINI_API_KEY"] succeeds, and apiKey is not empty
KeyUsable(secret) == secret = "key"

\* response.raise_for_status(): HTTPError for a status from 400 to 599
raise_for_status(status_code) == status_code >= 400 /\ status_code < 600

\* response.status_code == 429 or response.status_code >= 500
Retryable(status_code) == status_code = 429 \/ status_code >= 500

\* except Exception as e: the string made of the exception
ExceptionString(e) ==
    IF e.has403 THEN Returned("AI error: 403 Forbidden", 0)
    ELSE Returned("AI error: exception", 0)

\* the lines after the loop: the status check and the reading of the body
ReadResponse(status_code, body) ==
    IF status_code # 200 THEN Returned("AI failed (Status)", status_code)
    ELSE IF ~body.is_json THEN ExceptionString([name |-> "JSONDecodeError", has403 |-> FALSE])
    ELSE IF ~body.is_object THEN ExceptionString([name |-> "AttributeError", has403 |-> FALSE])
    ELSE IF body.candidates = <<>> THEN Returned("candidates is missing", 0)
    ELSE LET content == body.candidates[1]
         IN  IF content.parts = <<>> THEN Returned("content or parts is missing", 0)
             ELSE LET text == content.parts[1]
                  IN  IF text = <<>> THEN Returned("empty response", 0)
                      ELSE Returned("text", text)

-----------------------------------------------------------------------------
(* The treemap of the clusters                                             *)

\* dict.get(key, default) on an object read from JSON: an object is a record
\* with the set of its keys in .keys
Get(object, key, default) == IF key \in object.keys THEN object[key] ELSE default

\* the sub-topics of one cluster whose value is above 0, in their order
ListedSubTopics(sub_topics) ==
    SelectSeq(sub_topics, LAMBDA sub_topic : Get(sub_topic, "value", 0) > 0)

\* what the pass of the loop for one cluster appends to labels
ClusterLabels(cluster) ==
    LET listed == ListedSubTopics(Get(cluster, "children", <<>>))
    IN  <<Get(cluster, "name", "unknown cluster")>>
            \o [i \in DOMAIN listed |-> Get(listed[i], "name", "unknown topic")]

\* what the pass of the loop for one cluster appends to parents
ClusterParents(cluster, root_name) ==
    LET listed == ListedSubTopics(Get(cluster, "children", <<>>))
    IN  <<root_name>> \o [i \in DOMAIN listed |-> Get(cluster, "name", "unknown cluster")]

\* what the pass of the loop for one cluster appends to values: 1 when the
\* cluster has no sub-topics; otherwise the value of each listed sub-topic
\* as it is met, and 0 after the last sub-topic
ClusterValues(cluster) ==
    LET sub_topics == Get(cluster, "children", <<>>)
        listed == ListedSubTopics(sub_topics)
    IN  IF sub_topics = <<>> THEN <<1>>
        ELSE [i \in DOMAIN listed |-> Get(listed[i], "value", 0)] \o <<0>>

\* parse_json_for_plotly: labels, parents, values, error
parse_json_for_plotly(json_data_str) ==
    IF ~json_data_str.is_json
    THEN [labels |-> <<>>, parents |-> <<>>, values |-> <<>>, error |-> "JSON parse error"]
    ELSE
    LET data == json_data_str.data
        root_name == Get(data, "name", "All")
        clusters == Get(data, "children", <<>>)
    IN  IF clusters = <<>>
        THEN [labels |-> <<>>, parents |-> <<>>, values |-> <<>>,
              error |-> "no children in JSON"]
        ELSE [labels  |-> <<root_name>>
                              \o Flatten([k \in DOMAIN clusters |-> ClusterLabels(clusters[k])]),
              parents |-> <<"">>
                              \o Flatten([k \in DOMAIN clusters |->
                                             ClusterParents(clusters[k], root_name)]),
              values  |-> <<0>>
                              \o Flatten([k \in DOMAIN clusters |-> ClusterValues(clusters[k])]),
              error   |-> NULL]

\* create_plotly_treemap: the figure made of the three lists, or the error
create_plotly_treemap(json_data_str) ==
    LET parsed == parse_json_for_plotly(json_data_str)
    IN  IF parsed.error # NULL
        THEN [fig |-> [drawn |-> FALSE, labels |-> <<>>, parents |-> <<>>, values |-> <<>>,
                       branchvalues |-> "total"],
              error |-> parsed.error]
        ELSE [fig |-> [drawn |-> TRUE, labels |-> parsed.labels, parents |-> parsed.parents,
                       values |-> parsed.values, branchvalues |-> "total"],
              error |-> NULL]

-----------------------------------------------------------------------------
(* The text handed to the AI                                               *)

\* MAX_AI_INPUT_CHARS = 1000000
MAX_AI_INPUT_CHARS == 1000000

\* A string of any length is a sequence of runs [c, n]: n times the
\* character c.  Concatenation is \o and len() adds up the runs.
Chars(codes) == [i \in DOMAIN codes |-> [c |-> codes[i], n |-> 1]]

RECURSIVE len(_)
len(string) == IF string = <<>> THEN 0 ELSE Head(string).n + len(Tail(string))

\* str(n) for a number n >= 0
RECURSIVE Digits(_)
Digits(n) == IF n < 10 THEN <<48 + n>> ELSE Digits(n \div 10) \o <<48 + (n % 10)>>

\* the characters of a text cell: of a string its characters (the surfaces
\* of its tokens one after the other when only the tokens are given), of a
\* number its digits, of NaN "nan"
CellChars(cell) ==
    IF cell.is_str
    THEN IF "chars" \in DOMAIN cell THEN cell.chars
         ELSE Chars(Flatten([i \in DOMAIN cell.tokens |-> cell.tokens[i].surface]))
    ELSE IF "value" \in DOMAIN cell THEN Chars(Digits(cell.value))
    ELSE Chars(<<110, 97, 110>>)

\* row[text_column] or '': the empty string in place of a cell that counts
\* as false (an empty string, the number 0)
TextOrEmpty(cell) ==
    IF ~cell.is_str /\ "value" \in DOMAIN cell /\ cell.value = 0 THEN <<>> ELSE CellChars(cell)

\* str(row[col] or 'N/A') for the values an attribute takes; NaN counts as
\* true and gives "nan"
AttrChars(value) ==
    CASE value = "A" -> <<65>>
      [] value = "B" -> <<66>>
      [] value = "C" -> <<67>>
      [] value = "X" -> <<88>>
      [] value = "Y" -> <<89>>
      [] value = NULL -> <<110, 97, 110>>
      [] OTHER -> <<78, 47, 65>>

\* ' | '.join(attrs)
RECURSIVE Join(_)
Join(attrs) ==
    IF attrs = <<>> THEN <<>>
    ELSE IF Len(attrs) = 1 THEN Head(attrs)
    ELSE Head(attrs) \o <<32, 124, 32>> \o Join(Tail(attrs))

\* format_for_ai(row): "[行番号: N] [attributes] || text", N = row.name + 2
format_for_ai(row, name, text_column, attribute_columns) ==
    LET excel_row_num == name + 2
        text     == TextOrEmpty(row[text_column])
        attrs    == [k \in DOMAIN attribute_columns |-> AttrChars(row[attribute_columns[k]])]
        id_str   == <<91, 34892, 30058, 21495, 58, 32>> \o Digits(excel_row_num) \o <<93>>
        attr_str == IF attrs # <<>> THEN <<91>> \o Join(attrs) \o <<93>> ELSE <<>>
    IN  Chars(id_str \o <<32>> \o attr_str \o <<32, 124, 124, 32>>) \o text

\* mutant: a row that does not fit is passed over and the loop goes on
RECURSIVE AiInputLoop_SkipsRow(_, _, _, _, _)
AiInputLoop_SkipsRow(rows, i, text_column, attribute_columns, acc) ==
    IF i > Len(rows) \/ ~Evaluated(acc) THEN acc
    ELSE LET row_text == format_for_ai(rows[i], i - 1, text_column, attribute_columns)
                             \o Chars(<<10>>)
         IN  IF acc.current_char_count + len(row_text) > MAX_AI_INPUT_CHARS
             THEN AiInputLoop_SkipsRow(rows, i + 1, text_column, attribute_columns, acc)
             ELSE AiInputLoop_SkipsRow(rows, i + 1, text_column, attribute_columns,
                              [ai_input_parts |-> Append(acc.ai_input_parts, row_text),
                               current_char_count |-> acc.current_char_count + len(row_text),
                               analyzed_items |-> acc.analyzed_items + 1])

\* for index, row in df_analyzed.iterrows(): from row i on, with the parts,
\* the count of characters and the count of rows so far in acc; the loop
\* ends at the first row that would take the text over the limit
RECURSIVE AiInputLoop(_, _, _, _, _)
AiInputLoop(rows, i, text_column, attribute_columns, acc) ==
    IF i > Len(rows) \/ ~Evaluated(acc) THEN acc
    ELSE LET row_text == format_for_ai(rows[i], i - 1, text_column, attribute_columns)
                             \o Chars(<<10>>)
         IN  IF acc.current_char_count + len(row_text) > MAX_AI_INPUT_CHARS
             THEN acc
             ELSE AiInputLoop(rows, i + 1, text_column, attribute_columns,
                              [ai_input_parts |-> Append(acc.ai_input_parts, row_text),
                               current_char_count |-> acc.current_char_count + len(row_text),
                               analyzed_items |-> acc.analyzed_items + 1])

\* the text, the counts and the scope instruction made at the start of the
\* tabs (lines 710-730)
AiInput(rows, text_column, attribute_columns) ==
    LET total_items == Len(rows)
        loop == AiInputLoop(rows, 1, text_column, attribute_columns,
                            [ai_input_parts |-> <<>>, current_char_count |-> 0,
                             analyzed_items |-> 0])
        analyzed_items == loop.analyzed_items
    IN  [ai_input_text  |-> Flatten(loop.ai_input_parts),
         total_items    |-> total_items,
         analyzed_items |-> analyzed_items,
         analysis_scope_instr |->
             IF analyzed_items < total_items
             THEN [scope |-> "first rows", total_items |-> total_items,
                   provided |-> analyzed_items]
             ELSE [scope |-> "all rows", total_items |-> total_items,
                   provided |-> total_items]]

-----------------------------------------------------------------------------
(* Inputs                                                                  *)

Tok(surface, base_form, pos) ==
    [surface |-> surface, base_form |-> base_form, part_of_speech |-> <<pos, "*">>]

Str(tokens) == [is_str |-> TRUE, tokens |-> tokens]

\* a cell that holds no string: extract_words sees NaN
NotAString == [is_str |-> FALSE, tokens |-> <<>>]

\* a cell that holds a number: extract_words sees an int
NumberCell == [is_str |-> FALSE, tokens |-> <<>>, value |-> 12]

Row(text, attr) == [text |-> text, attr |-> attr]

\* Tokens of the kinds the filter tells apart: kept nouns, verbs (base form
\* differs from the surface) and adjectives; a number; a one-character noun;
\* a particle; a baseline stopword that is a noun; a token whose base form
\* alone is numeric and one whose surface alone is numeric.
FreqTokens ==
    { Tok(<<97, 98>>, <<97, 98>>, "noun"),
      Tok(<<99, 100>>, <<99, 101>>, "verb"),
      Tok(<<104, 105>>, <<104, 105>>, "adjective"),
      Tok(<<49, 50>>, <<49, 50>>, "noun"),
      Tok(<<120>>, <<120>>, "noun"),
      Tok(<<103, 97>>, <<103, 97>>, "particle"),
      Tok(<<107, 111>>, <<107, 111>>, "noun"),
      Tok(<<97, 98>>, <<51, 52>>, "noun"),
      Tok(<<53, 54>>, <<97, 98>>, "noun") }

MaxTextLen == 3

SeqsUpTo(S, n) == UNION {[1..k -> S] : k \in 0..n}

FreqTexts == {Str(t) : t \in SeqsUpTo(FreqTokens, MaxTextLen)}

ShortTexts == {Str(t) : t \in SeqsUpTo(FreqTokens, 1)} \cup {NotAString, NumberCell}

FreqDataSets ==
    {<<Row(t, "A")>> : t \in FreqTexts}
        \cup {<<Row(t, "A"), Row(u, "B")>> : t \in ShortTexts, u \in ShortTexts}

\* Documents for the co-occurrence network.  NetWord(1), NetWord(2), ... are
\* two-letter nouns in lexicographic order.  The big document holds enough
\* distinct words for more than TOP_PAIRS pairs.
NetWord(i) == <<97 + i, 97 + i>>

NounText(ws) == Str([i \in DOMAIN ws |-> Tok(ws[i], ws[i], "noun")])

BigDocLen == 13

MaxNetDocs == 2

\* the big document (words in falling order); a document that repeats a
\* word and holds a baseline stopword; one with a word of its own; one with
\* a word the user may add to the stopwords; one of a single word; a cell
\* that is not a string
NetTexts ==
    { NounText([i \in 1..BigDocLen |-> NetWord(BigDocLen + 1 - i)]),
      NounText(<<NetWord(BigDocLen), <<107, 111>>, NetWord(BigDocLen - 1), NetWord(BigDocLen)>>),
      NounText(<<NetWord(BigDocLen + 1), NetWord(1)>>),
      NounText(<<NetWord(1), <<97, 98>>>>),
      NounText(<<NetWord(3)>>),
      NotAString }

NetDataSets ==
    UNION {[1..k -> {Row(t, "A") : t \in NetTexts}] : k \in 1..MaxNetDocs}

\* Tables for the characteristic words: rows of category A and B that hold
\* the word "ww" or no word, counted by the four cells of the 2x2 table,
\* and one more row of another kind.
MaxCell == 4

Repeat(row, n) == [i \in 1..n |-> row]

WordText == NounText(<<(<<119, 119>>)>>)

NoWordText == Str(<<Tok(<<103, 97>>, <<103, 97>>, "particle")>>)

\* none; a row without a category, with a second word; a row that repeats the word beside a
\* word the user may add to the stopwords; a row of a third category with a
\* baseline stopword and a second word; a row whose text is not a string
ChiExtraRows ==
    { <<>>,
      <<Row(NounText(<<(<<119, 119>>), <<118, 118>>>>), NULL)>>,
      <<Row(NounText(<<(<<119, 119>>), <<97, 98>>, <<119, 119>>>>), "A")>>,
      <<Row(NounText(<<(<<107, 111>>), <<118, 118>>>>), "C")>>,
      <<Row(NotAString, "B")>> }

ChiDataSets ==
    { Repeat(Row(WordText, "A"), n[1]) \o Repeat(Row(NoWordText, "A"), n[2])
          \o Repeat(Row(WordText, "B"), n[3]) \o Repeat(Row(NoWordText, "B"), n[4]) \o extra :
        n \in [1..4 -> 0..MaxCell], extra \in ChiExtraRows }

\* Tables in which every row that has a category holds the word and the
\* rows without a category hold no word
MaxNull == 5

NullDataSets ==
    { Repeat(Row(WordText, "A"), n) \o <<Row(WordText, "B")>> \o Repeat(Row(NoWordText, NULL), m) :
        n \in 1..MaxNull, m \in 1..MaxNull }

\* Tables with many words: RichDocs rows of category A and as many of
\* category B without a word.  Word j stands in the first reach[j] rows of
\* A, so that words differ in their p-value; with MaxChiWords words more
\* than TOP_WORDS of them are characteristic of A.
RichDocs == 6

MaxChiWords == 22

RichTable(reach) ==
    [d \in 1..RichDocs |->
        Row(NounText(SelectSeq([j \in DOMAIN reach |-> NetWord(j)],
                               LAMBDA w : reach[w[1] - 97] >= d)), "A")]
        \o Repeat(Row(NoWordText, "B"), RichDocs)

\* every word in every row of A; every second word in one row less; every
\* third word in two rows less and every third in one row less
RichDataSets ==
    { RichTable([j \in 1..n |-> RichDocs - ((j % m) % 3)]) : n \in {3, MaxChiWords}, m \in 1..3 }

\* orders in which the words of a rich table are gone through: rising,
\* falling, and the odd words before the even ones
RichOrders ==
    UNION { { [j \in 1..n |-> NetWord(j)],
              [j \in 1..n |-> NetWord(n + 1 - j)],
              [j \in 1..n |-> NetWord(IF 2 * j - 1 <= n THEN 2 * j - 1
                                                         ELSE 2 * (j - (n + 1) \div 2))] } :
            n \in {3, MaxChiWords} }

\* the attribute column chosen, and a column the table does not have
AttributeCols == {"attr", "group"}

\* what the user may type into the stopword box: nothing, one word, and a
\* list with blanks and an empty entry (" ab, ,hi")
DynInputs ==
    { <<>>, <<97, 98>>, <<32, 97, 98, 44, 32, 44, 104, 105>> }

\* top_n values passed to calculate_frequency: small ones and the default
DEFAULT_TOP_N == 50

TopNInputs == {0, 1, 2, DEFAULT_TOP_N}

-----------------------------------------------------------------------------
(* Operations                                                              *)

\* "run analysis": df_analyzed['words'] = df[text_column].apply(extract_words)
Analyze ==
    /\ words' = [i \in DOMAIN df_original |-> extract_words(df_original[i].text)]
    /\ analyzed' = TRUE
    /\ dynamic_stopwords' = <<>>
    /\ freq_call' = NONE
    /\ net_call' = NONE
    /\ chi2_call' = NONE
    /\ tokenized' = {i \in DOMAIN df_original : UsesTokenizer(df_original[i].text)}
    /\ UNCHANGED <<df_original, value_errors, ai_input_call, plotly_call, api, session_vars>>

\* the stopword box was edited: the cached results are dropped and the new
\* string is stored
EditStopwords(input) ==
    /\ analyzed
    /\ input # dynamic_stopwords
    /\ dynamic_stopwords' = input
    /\ freq_call' = NONE
    /\ net_call' = NONE
    /\ chi2_call' = NONE
    /\ UNCHANGED <<df_original, value_errors, ai_input_call, plotly_call, api, analyzed, words, tokenized, session_vars>>

\* calculate_frequency(all_words_list, current_stopwords_set, top_n)
CallFrequency(top_n) ==
    /\ analyzed
    /\ LET all_words_list == Flatten(words)
           sw == current_stopwords_set(dynamic_stopwords)
           overall_freq_df == calculate_frequency(all_words_list, sw, top_n)
       IN  freq_call' = [called |-> TRUE, words_list |-> all_words_list,
                         stopwords |-> sw, top_n |-> top_n,
                         columns |-> overall_freq_df.columns,
                         table |-> overall_freq_df.rows]
    /\ UNCHANGED <<df_original, value_errors, ai_input_call, plotly_call, api, analyzed, words, dynamic_stopwords, net_call, chi2_call,
                   tokenized, session_vars>>

\* generate_network(df_analyzed['words'], font_path, current_stopwords_set)
CallNetwork ==
    /\ analyzed
    /\ LET sw == current_stopwords_set(dynamic_stopwords)
       IN  net_call' = [called |-> TRUE, words_df |-> words, stopwords |-> sw,
                        result |-> generate_network(words, "IPAexGothic", sw)]
    /\ UNCHANGED <<df_original, value_errors, ai_input_call, plotly_call, api, analyzed, words, dynamic_stopwords, freq_call, chi2_call,
                   tokenized, session_vars>>

\* df_analyzed: the rows of the table with their 'words' column
DfAnalyzed(words_column) ==
    [i \in DOMAIN df_original |->
        [col \in DOMAIN df_original[i] \cup {"words"} |->
            IF col = "words" THEN words_column[i] ELSE df_original[i][col]]]

df_analyzed == DfAnalyzed(words)

\* calculate_characteristic_words(df_analyzed, attr_col, text_column,
\*                                current_stopwords_set)
CallChi2(attribute_col, word_order) ==
    /\ analyzed
    /\ LET sw == current_stopwords_set(dynamic_stopwords)
       IN  /\ IsOrdering(word_order, all_words(df_analyzed, sw))
           /\ chi2_call' =
                  [called |-> TRUE, df |-> df_analyzed, attribute_col |-> attribute_col,
                   stopwords |-> sw,
                   result |-> calculate_characteristic_words(df_analyzed, attribute_col,
                                                             "text", sw, word_order)]
    /\ UNCHANGED <<df_original, value_errors, ai_input_call, plotly_call, api, analyzed, words, dynamic_stopwords, freq_call, net_call,
                   tokenized, session_vars>>

InitWith(datasets) ==
    /\ df_original \in datasets
    /\ analyzed = FALSE
    /\ words = <<>>
    /\ dynamic_stopwords = <<>>
    /\ freq_call = NONE
    /\ net_call = NONE
    /\ chi2_call = NONE
    /\ tokenized = {}
    /\ session_state = << >>
    /\ cache_data = << >>
    /\ display = NONE
    /\ value_errors = {}
    /\ api = ApiIdle
    /\ plotly_call = NONE
    /\ ai_input_call = NONE
    /\ sent = <<>>

InitFreq == InitWith(FreqDataSets)

NextFreq ==
    \/ Analyze
    \/ \E input \in DynInputs : EditStopwords(input)
    \/ \E top_n \in TopNInputs : CallFrequency(top_n)

SpecFreq == InitFreq /\ [][NextFreq]_vars

InitNet == InitWith(NetDataSets)

NextNet ==
    \/ Analyze
    \/ \E input \in DynInputs : EditStopwords(input)
    \/ CallNetwork

SpecNet == InitNet /\ [][NextNet]_vars

InitChi == InitWith(ChiDataSets \cup NullDataSets \cup RichDataSets)

\* the words a table of ChiDataSets can hold
ChiWords == { <<119, 119>>, <<97, 98>>, <<118, 118>>, <<107, 111>> }

NextChi ==
    \/ Analyze
    \/ \E input \in DynInputs : EditStopwords(input)
    \/ \E attribute_col \in AttributeCols :
           \E word_order \in UNION {Orderings(S) : S \in SUBSET ChiWords} \cup RichOrders :
               CallChi2(attribute_col, word_order)

SpecChi == InitChi /\ [][NextChi]_vars

\* Tables of two categories with two words of the first and one of the
\* second, and calls of chi2_contingency that raise ValueError
ErrDataSets ==
    LET base == Repeat(Row(NounText(<<(<<97, 98>>), <<118, 118>>>>), "A"), 4)
                    \o Repeat(Row(WordText, "B"), 4)
    IN  { base, base \o <<Row(NounText(<<(<<97, 98>>)>>), "B")>> }

ErrPairs ==
    { [word |-> w, table |-> t] :
        w \in { <<97, 98>>, <<118, 118>>, <<119, 119>> },
        t \in { [a |-> 4, b |-> 0, c |-> 0, d |-> 4], [a |-> 0, b |-> 4, c |-> 4, d |-> 0],
                [a |-> 4, b |-> 1, c |-> 0, d |-> 4] } }

InitChiErr ==
    /\ df_original \in ErrDataSets
    /\ analyzed = FALSE
    /\ words = <<>>
    /\ dynamic_stopwords = <<>>
    /\ freq_call = NONE
    /\ net_call = NONE
    /\ chi2_call = NONE
    /\ tokenized = {}
    /\ session_state = << >>
    /\ cache_data = << >>
    /\ display = NONE
    /\ value_errors \in {E \in SUBSET ErrPairs : Cardinality(E) \in 1..2}
    /\ api = ApiIdle
    /\ plotly_call = NONE
    /\ ai_input_call = NONE
    /\ sent = <<>>

SpecChiErr == InitChiErr /\ [][NextChi]_vars

\* call_gemini_api is entered: the key is read
StartCall(secret) ==
    /\ api.pc = "idle"
    /\ api' = IF KeyUsable(secret)
              THEN [api EXCEPT !.pc = "loop", !.secret = secret]
              ELSE [api EXCEPT !.pc = "returned", !.secret = secret,
                               !.result = Returned("GEMINI_API_KEY is not set", 0)]
    /\ UNCHANGED <<df_original, value_errors, ai_input_call, plotly_call, analyzed, words, dynamic_stopwords, freq_call,
                   net_call, chi2_call, tokenized, session_vars>>

\* one pass of the loop in which requests.post raises
PostRaises(e) ==
    /\ api.pc = "loop"
    /\ api' = [api EXCEPT !.pc = "returned",
                          !.posts = Append(@, 0),
                          !.slept_before = Append(@, Len(api.sleeps)),
                          !.result = ExceptionString(e)]
    /\ UNCHANGED <<df_original, value_errors, ai_input_call, plotly_call, analyzed, words, dynamic_stopwords, freq_call,
                   net_call, chi2_call, tokenized, session_vars>>

\* one pass of the loop in which requests.post gives a response, with the
\* lines that follow the loop when this pass leaves it
Post(status_code, body) ==
    /\ api.pc = "loop"
    /\ LET posted == [api EXCEPT !.posts = Append(@, status_code),
                                 !.slept_before = Append(@, Len(api.sleeps)),
                                 !.i = @ + 1]
           last   == posted.i = MAX_ATTEMPTS
       IN  api' =
             IF status_code = 200
             THEN [posted EXCEPT !.pc = "returned", !.body = body,
                                 !.result = ReadResponse(status_code, body)]
             ELSE IF Retryable(status_code)
             THEN [posted EXCEPT !.sleeps = Append(@, api.delay \div 1000),
                                 !.delay = 2 * @,
                                 !.pc = IF last THEN "returned" ELSE "loop",
                                 !.result = IF last THEN ReadResponse(status_code, body)
                                            ELSE api.result]
             ELSE IF raise_for_status(status_code)
             THEN [posted EXCEPT !.pc = "returned",
                                 !.result = ExceptionString([name |-> "HTTPError",
                                                             has403 |-> status_code = 403])]
             ELSE [posted EXCEPT !.pc = IF last THEN "returned" ELSE "loop",
                                 !.result = IF last THEN ReadResponse(status_code, body)
                                            ELSE api.result]
    /\ UNCHANGED <<df_original, value_errors, ai_input_call, plotly_call, analyzed, words, dynamic_stopwords, freq_call,
                   net_call, chi2_call, tokenized, session_vars>>

\* the secrets store: no key, an empty key, a key
Secrets == {"missing", "empty", "key"}

\* the statuses the endpoint or a host on the way answers with
Statuses == {200, 204, 302, 400, 403, 429, 500, 503}

\* the bodies of a response: not JSON; JSON that is no object; an object
\* without candidates or with an empty list of them; a candidate without
\* content or parts; a part without text or with empty text; a text
Bodies ==
    { [is_json |-> FALSE, is_object |-> FALSE, candidates |-> <<>>],
      [is_json |-> TRUE, is_object |-> FALSE, candidates |-> <<>>],
      [is_json |-> TRUE, is_object |-> TRUE, candidates |-> <<>>],
      [is_json |-> TRUE, is_object |-> TRUE, candidates |-> <<[parts |-> <<>>]>>],
      [is_json |-> TRUE, is_object |-> TRUE, candidates |-> <<[parts |-> << <<>> >>]>>],
      [is_json |-> TRUE, is_object |-> TRUE, candidates |-> <<[parts |-> << <<111, 107>> >>]>>] }

\* the exceptions of requests.post
PostErrors ==
    { [name |-> "ConnectionError", has403 |-> FALSE], [name |-> "Timeout", has403 |-> FALSE] }

InitApi == InitWith({<<>>})

NextApi ==
    \/ \E secret \in Secrets : StartCall(secret)
    \/ \E e \in PostErrors : PostRaises(e)
    \/ \E status_code \in Statuses : \E body \in Bodies : Post(status_code, body)

SpecApi == InitApi /\ [][NextApi]_vars

\* The sub-topics a cluster may hold: two with a value above 0, one with
\* a value below 0, one without a value
SubTopics ==
    { [keys |-> {"name", "value"}, name |-> "s1", value |-> 3],
      [keys |-> {"name", "value"}, name |-> "s2", value |-> 5],
      [keys |-> {"name", "value"}, name |-> "s3", value |-> -1],
      [keys |-> {"name"}, name |-> "s4", value |-> 0] }

MaxSubTopics == 2

ClusterNames == <<"A", "B">>

\* the strings handed to the parser: no JSON; an object with or without a
\* name and with up to two clusters of up to MaxSubTopics sub-topics
JsonInputs ==
    { [is_json |-> FALSE, data |-> [keys |-> {}]] }
    \cup
    { [is_json |-> TRUE,
       data |-> [keys |-> IF named THEN {"name", "children"} ELSE {"children"},
                 name |-> "root",
                 children |-> [k \in DOMAIN lists |->
                                  [keys |-> {"name", "children"}, name |-> ClusterNames[k],
                                   children |-> lists[k]]]]] :
        named \in BOOLEAN,
        lists \in SeqsUpTo(SeqsUpTo(SubTopics, MaxSubTopics), Len(ClusterNames)) }

\* tab_cluster: the treemap is made of the JSON string, once ('fig_treemap_display'
\* is then in session state)
CallTreemap(json_data_str) ==
    /\ ~plotly_call.called
    /\ plotly_call' = [called |-> TRUE, json_data_str |-> json_data_str,
                       result |-> create_plotly_treemap(json_data_str)]
    /\ UNCHANGED <<df_original, value_errors, ai_input_call, api, analyzed, words, dynamic_stopwords,
                   freq_call, net_call, chi2_call, tokenized, session_vars>>

InitTree == InitWith({<<>>})

NextTree == \E json_data_str \in JsonInputs : CallTreemap(json_data_str)

SpecTree == InitTree /\ [][NextTree]_vars

\* Texts of 2, 499 986, 999 986 and 999 987 characters: with the 14
\* characters the format adds to a row without attributes, two texts of the
\* second length, or one of the third, fill the limit to the last character
LongText(n) == [is_str |-> TRUE, chars |-> <<[c |-> 97, n |-> n]>>]

AiTexts == { LongText(2), LongText(499986), LongText(999986), LongText(999987) }

MaxAiRows == 3

AiDataSets == { [i \in DOMAIN texts |-> Row(texts[i], "A")] : texts \in SeqsUpTo(AiTexts, MaxAiRows) }

\* the common lines before the tabs make the text for the AI
CallAiInput(attribute_columns) ==
    /\ ai_input_call' = [called |-> TRUE, rows |-> df_original,
                         attribute_columns |-> attribute_columns,
                         result |-> AiInput(df_original, "text", attribute_columns)]
    /\ UNCHANGED <<df_original, value_errors, plotly_call, api, analyzed, words,
                   dynamic_stopwords, freq_call, net_call, chi2_call, tokenized, session_vars>>

InitAiInput == InitWith(AiDataSets)

NextAiInput == \E attribute_columns \in { <<>>, <<"attr">> } : CallAiInput(attribute_columns)

SpecAiInput == InitAiInput /\ [][NextAiInput]_vars

-----------------------------------------------------------------------------
(* The result tabs: one rerun of the script                                *)

\* st.session_state.pop(key, None) for each of the keys
Pop(ss, keys) == [k \in DOMAIN ss \ keys |-> ss[k]]

\* st.session_state[key] = value
Put(ss, key, value) == [k \in DOMAIN ss \cup {key} |-> IF k = key THEN value ELSE ss[k]]

\* the keys dropped when the stopword box was edited
StatKeys ==
    { "fig_wc_display", "wc_error_display", "fig_net_display", "net_error_display",
      "chi2_results_display", "chi2_error_display", "overall_freq_df_display",
      "attribute_freq_dfs_display" }

\* the keys dropped by "run analysis" (dynamic_stopwords is dropped as well)
AnalysisKeys ==
    StatKeys \cup
    { "ai_result_simple", "ai_result_academic", "ai_result_cluster_json",
      "ai_result_cluster_text", "fig_treemap_display", "treemap_error_display",
      "ai_result_sentiment_json", "fig_sentiment_pie_display",
      "sentiment_pie_error_display", "chat_messages" }

\* A computed value as it is kept in session state or by st.cache_data.
\* sw is the stopword set it was computed with: the program keeps the value
\* only, sw is carried along for the properties.
Cached(value, sw) == [value |-> value, sw |-> sw]

\* @st.cache_data on calculate_characteristic_words: the key is made of the
\* arguments whose parameter name does not begin with an underscore, that
\* is attribute_col and text_col; on a hit the stored value is returned and
\* the function body does not run.
cached_calculate_characteristic_words(cache, _df, attribute_col, text_col, _stopwords_set, word_order) ==
    LET key == <<attribute_col, text_col>>
    IN  IF key \in DOMAIN cache
        THEN [value |-> cache[key], cache |-> cache]
        ELSE CHOOSE r \in
                 { [value |-> v, cache |-> Put(cache, key, v)] :
                   v \in { Cached(calculate_characteristic_words(_df, attribute_col, text_col,
                                                                 _stopwords_set, word_order),
                                  _stopwords_set) } } : TRUE

\* mutant: an edit drops every result of the run
StopwordBox_DropsAll(ss, stored, dynamic_stopwords_input) ==
    IF dynamic_stopwords_input # stored
    THEN [session |-> Pop(ss, AnalysisKeys), dynamic_stopwords |-> dynamic_stopwords_input,
          edited |-> TRUE]
    ELSE [session |-> ss, dynamic_stopwords |-> stored, edited |-> FALSE]

\* the stopword box: the widget gives its text; when it differs from the
\* stored string the cached results are dropped and the text is stored
StopwordBox(ss, stored, dynamic_stopwords_input) ==
    IF dynamic_stopwords_input # stored
    THEN [session |-> Pop(ss, StatKeys), dynamic_stopwords |-> dynamic_stopwords_input,
          edited |-> TRUE]
    ELSE [session |-> ss, dynamic_stopwords |-> stored, edited |-> FALSE]

\* [word for sublist in rows['words'] for word in sublist]
WordsOf(rows) == Flatten([i \in DOMAIN rows |-> rows[i].words])

\* An environment env is [session, cache, handed, sent, ai]: session state,
\* the entries of st.cache_data, the stopword sets handed to the functions
\* called so far in this rerun, the requests made to the AI endpoint, and
\* the text for the AI with its counts and scope instruction.
Handed(env, fn, sw) == env.handed \cup {[fn |-> fn, stopwords |-> sw]}

\* st.selectbox(label, options, 0, key=...): the stored choice while it is
\* one of the options, the first option otherwise
Selectbox(ss, key, options) ==
    IF key \in DOMAIN ss /\ ss[key] \in Range(options) THEN ss[key] ELSE options[1]

\* tab2: the word cloud of all words
TabWordCloud(env, rows, font_path, sw) ==
    IF "fig_wc_display" \in DOMAIN env.session THEN env
    ELSE LET r == generate_wordcloud(WordsOf(rows), font_path, sw)
         IN  [env EXCEPT !.session = Put(Put(@, "fig_wc_display", Cached(r.fig, sw)),
                                         "wc_error_display", r.error),
                         !.handed = Handed(env, "generate_wordcloud", sw)]

\* tab2: the word clouds per value of the selected attribute are drawn anew
\* in every rerun and are not kept
TabAttributeWordCloud(env, rows, attribute_columns, sw) ==
    IF attribute_columns = <<>> THEN env
    ELSE
    LET selected_attr_for_wc == Selectbox(env.session, "wc_attr_select", attribute_columns)
        unique_values == {rows[i][selected_attr_for_wc] : i \in DOMAIN rows} \ {NULL}
        drawn == {val \in unique_values :
                     WordsOf(SelectSeq(rows, LAMBDA r : r[selected_attr_for_wc] = val)) # <<>>}
    IN  [env EXCEPT !.session = Put(@, "wc_attr_select", selected_attr_for_wc),
                    !.handed = IF drawn = {} THEN env.handed
                               ELSE Handed(env, "generate_wordcloud", sw)]

\* tab3: the frequency table of all words
TabFrequency(env, rows, sw) ==
    IF "overall_freq_df_display" \in DOMAIN env.session THEN env
    ELSE LET overall_freq_df == calculate_frequency(WordsOf(rows), sw, DEFAULT_TOP_N)
         IN  [env EXCEPT !.session = Put(@, "overall_freq_df_display",
                                         Cached(overall_freq_df, sw)),
                         !.handed = Handed(env, "calculate_frequency", sw)]

\* tab3: the frequency tables per value of the selected attribute, kept as
\* a mapping from the value to its table
TabAttributeFrequency(env, rows, attribute_columns, dynamic, sw) ==
    IF attribute_columns = <<>> THEN env
    ELSE
    LET ss == env.session
        selected_attr_for_freq == Selectbox(ss, "freq_attr_select", attribute_columns)
        stale ==
            \/ "attribute_freq_dfs_display" \notin DOMAIN ss
            \/ "attribute_freq_col_display" \notin DOMAIN ss
            \/ ss["attribute_freq_col_display"] # selected_attr_for_freq
            \/ "attribute_freq_sw_display" \notin DOMAIN ss
            \/ ss["attribute_freq_sw_display"] # dynamic
        unique_values == {rows[i][selected_attr_for_freq] : i \in DOMAIN rows} \ {NULL}
        dfs == [val \in unique_values |->
                   calculate_frequency(
                       WordsOf(SelectSeq(rows, LAMBDA r : r[selected_attr_for_freq] = val)),
                       sw, DEFAULT_TOP_N)]
    IN  IF ~stale THEN [env EXCEPT !.session = Put(@, "freq_attr_select", selected_attr_for_freq)]
        ELSE [env EXCEPT
                 !.session = Put(Put(Put(Put(@, "freq_attr_select", selected_attr_for_freq),
                                         "attribute_freq_dfs_display", Cached(dfs, sw)),
                                     "attribute_freq_col_display", selected_attr_for_freq),
                                 "attribute_freq_sw_display", dynamic),
                 !.handed = IF unique_values = {} THEN env.handed
                            ELSE Handed(env, "calculate_frequency", sw)]

\* tab4: the co-occurrence network
TabNetwork(env, rows, font_path, sw) ==
    IF "fig_net_display" \in DOMAIN env.session THEN env
    ELSE LET r == generate_network([i \in DOMAIN rows |-> rows[i].words], font_path, sw)
         IN  [env EXCEPT !.session = Put(Put(@, "fig_net_display", Cached(r, sw)),
                                         "net_error_display", r.error),
                         !.handed = Handed(env, "generate_network", sw)]

\* tab6: the characteristic words of the first attribute
TabChi2(env, rows, attribute_columns, dynamic, sw, word_order) ==
    IF attribute_columns = <<>> THEN env
    ELSE
    LET ss == env.session
        attr_col_for_chi2 == attribute_columns[1]
        stale ==
            \/ "chi2_results_display" \notin DOMAIN ss
            \/ "chi2_sw_display" \notin DOMAIN ss
            \/ ss["chi2_sw_display"] # dynamic
    IN  IF ~stale THEN env
        ELSE CHOOSE e \in
                 { [env EXCEPT !.session = Put(Put(ss, "chi2_results_display", r.value),
                                               "chi2_sw_display", dynamic),
                               !.cache   = r.cache,
                               !.handed  = Handed(env, "calculate_characteristic_words", sw)] :
                   r \in { cached_calculate_characteristic_words(
                               env.cache, rows, attr_col_for_chi2, "text", sw, word_order) } }
                 : TRUE

\* A string of the AI part of the script: an answer of the endpoint (the
\* n-th answer since 'run analysis' has serial n; two answers are never
\* taken to be the same string), or a text the script makes: a question or
\* fixed text, the formatted rows (context), or the rows and a question in
\* the frame of the first chat message
NoData == [keys |-> {}]

Text(text, context, framed) ==
    [is_json |-> FALSE, data |-> NoData, text |-> text, serial |-> 0, context |-> context,
     framed |-> framed]

\* call_gemini_api as the tabs see it: the string it returns for the n-th
\* request, which the endpoint decides by the kind of the request
Answer(endpoint, purpose, n) ==
    [is_json |-> endpoint[purpose].is_json, data |-> endpoint[purpose].data,
     text |-> endpoint[purpose].text, serial |-> n, context |-> <<>>, framed |-> FALSE]

\* a prompt template without a scope instruction
NoScope == [scope |-> "none", total_items |-> 0, provided |-> 0]

\* the arguments of one call of call_gemini_api.  system_instruction is the
\* prompt template and what is filled in: the scope instruction, whether
\* there are attribute columns, the cluster JSON
Request(purpose, contents, prompt, scope, has_attr, json_data, generation_config) ==
    [purpose |-> purpose, contents |-> contents,
     system_instruction |-> [prompt |-> prompt, scope |-> scope, has_attr |-> has_attr,
                             json_data |-> json_data],
     generation_config |-> generation_config]

\* contents = [{"parts": [{"text": ai_input_text}]}]
RowsAsContents(ai) == << [role |-> "user", text |-> Text("", ai.ai_input_text, FALSE)] >>

\* the call is made: the request is sent and the answer is stored under key
Ask(env, endpoint, key, request) ==
    [env EXCEPT !.session = Put(@, key, Answer(endpoint, request.purpose, Len(env.sent) + 1)),
                !.sent = Append(@, request)]

\* mutant: the cluster JSON is requested whenever it is needed
get_or_generate_cluster_json_AlwaysAsks(env, endpoint, ai) ==
    Ask(env, endpoint, "ai_result_cluster_json",
        Request("cluster_json", RowsAsContents(ai), "SYSTEM_PROMPT_CLUSTER_JSON",
                ai.analysis_scope_instr, FALSE, Text("", <<>>, FALSE), "json"))

\* get_or_generate_cluster_json: the string is in
\* session["ai_result_cluster_json"] afterwards
get_or_generate_cluster_json(env, endpoint, ai) ==
    IF "ai_result_cluster_json" \in DOMAIN env.session THEN env
    ELSE Ask(env, endpoint, "ai_result_cluster_json",
             Request("cluster_json", RowsAsContents(ai), "SYSTEM_PROMPT_CLUSTER_JSON",
                     ai.analysis_scope_instr, FALSE, Text("", <<>>, FALSE), "json"))

\* tab1: the summary
TabSummary(env, endpoint, ai, attribute_columns) ==
    IF "ai_result_simple" \in DOMAIN env.session THEN env
    ELSE \* bound through a one-element set: evaluated once
         CHOOSE e \in
             { Ask(e1, endpoint, "ai_result_simple",
                   Request("simple", RowsAsContents(ai), "SYSTEM_PROMPT_SIMPLE",
                           ai.analysis_scope_instr, attribute_columns # <<>>,
                           e1.session["ai_result_cluster_json"], "none")) :
               e1 \in {get_or_generate_cluster_json(env, endpoint, ai)} } : TRUE

\* create_sentiment_pie_chart: the counts above 0 with their labels, or the
\* error
create_sentiment_pie_chart(json_data_str) ==
    LET NoPie == [drawn |-> FALSE, labels |-> <<>>, sizes |-> <<>>]
    IN  IF ~json_data_str.is_json THEN [fig |-> NoPie, error |-> "JSON parse error"]
        ELSE IF "items" \notin DOMAIN json_data_str.data \/ json_data_str.data.items = <<>>
        THEN [fig |-> NoPie, error |-> "not a list"]
        ELSE LET data == json_data_str.data.items
                 drawn == SelectSeq(data, LAMBDA item : Get(item, "count", 0) > 0)
             IN  IF drawn = <<>> THEN [fig |-> NoPie, error |-> "no count above 0"]
                 ELSE [fig |-> [drawn |-> TRUE,
                                labels |-> [k \in DOMAIN drawn |->
                                               Get(drawn[k], "sentiment", "unknown")],
                                sizes |-> [k \in DOMAIN drawn |-> Get(drawn[k], "count", 0)]],
                       error |-> NULL]

\* tab_sentiment, step 2: the pie chart of the stored JSON
SentimentPie(env) ==
    IF "fig_sentiment_pie_display" \in DOMAIN env.session THEN env
    ELSE CHOOSE e \in
             { [env EXCEPT !.session = Put(Put(@, "fig_sentiment_pie_display", r.fig),
                                           "sentiment_pie_error_display", r.error)] :
               r \in {create_sentiment_pie_chart(env.session["ai_result_sentiment_json"])} }
             : TRUE

\* tab_sentiment: the JSON of the sentiments, then the pie chart of it
TabSentiment(env, endpoint, ai) ==
    CHOOSE e \in
        { SentimentPie(e1) :
          e1 \in { IF "ai_result_sentiment_json" \in DOMAIN env.session THEN env
                   ELSE Ask(env, endpoint, "ai_result_sentiment_json",
                            Request("sentiment_json", RowsAsContents(ai),
                                    "SYSTEM_PROMPT_SENTIMENT_JSON", ai.analysis_scope_instr,
                                    FALSE, Text("", <<>>, FALSE), "json")) } } : TRUE

\* tab_cluster, step 2: the interpretation of the stored cluster JSON
ClusterText(env, endpoint, ai) ==
    IF "ai_result_cluster_text" \in DOMAIN env.session THEN env
    ELSE Ask(env, endpoint, "ai_result_cluster_text",
             Request("cluster_text",
                     << [role |-> "user", text |-> Text("interpret the clusters", <<>>, FALSE)] >>,
                     "SYSTEM_PROMPT_CLUSTER_TEXT", ai.analysis_scope_instr, FALSE,
                     env.session["ai_result_cluster_json"], "none"))

\* tab_cluster, step 3: the treemap of the stored cluster JSON
ClusterTreemap(env) ==
    IF "fig_treemap_display" \in DOMAIN env.session THEN env
    ELSE CHOOSE e \in
             { [env EXCEPT !.session = Put(Put(@, "fig_treemap_display", r.fig),
                                           "treemap_error_display", r.error)] :
               r \in {create_plotly_treemap(env.session["ai_result_cluster_json"])} } : TRUE

\* tab_cluster: the cluster JSON, its interpretation, the treemap
TabCluster(env, endpoint, ai) ==
    CHOOSE e \in
        { ClusterTreemap(e2) :
          e2 \in { ClusterText(e1, endpoint, ai) :
                   e1 \in { IF "ai_result_cluster_json" \in DOMAIN env.session THEN env
                            ELSE get_or_generate_cluster_json(env, endpoint, ai) } } } : TRUE

\* tab7: the academic summary
TabAcademic(env, endpoint, ai, attribute_columns) ==
    IF "ai_result_academic" \in DOMAIN env.session THEN env
    ELSE CHOOSE e \in
             { Ask(e1, endpoint, "ai_result_academic",
                   Request("academic", RowsAsContents(ai), "SYSTEM_PROMPT_ACADEMIC",
                           ai.analysis_scope_instr, attribute_columns # <<>>,
                           e1.session["ai_result_cluster_json"], "none")) :
               e1 \in {get_or_generate_cluster_json(env, endpoint, ai)} } : TRUE

\* api_contents of tab8: the messages before the new one as they are stored,
\* then the new question, in the frame with the rows when it is the only
\* message
ChatContents(chat_messages, ai, prompt) ==
    LET first_user_message == Text(prompt, ai.ai_input_text, TRUE)
        is_first_turn == Len(chat_messages) = 1
    IN  [k \in 1..(Len(chat_messages) - 1) |->
            [role |-> IF chat_messages[k].role = "user" THEN "user" ELSE "model",
             text |-> chat_messages[k].content]]
        \o << [role |-> "user",
               text |-> IF is_first_turn THEN first_user_message
                        ELSE Text(prompt, <<>>, FALSE)] >>

\* tab8: the chat.  prompt is what st.chat_input gives: "" unless a question
\* was sent in this rerun
TabChat(env, endpoint, ai, prompt) ==
    LET stored == IF "chat_messages" \in DOMAIN env.session THEN env.session["chat_messages"]
                  ELSE <<>>
        chat_messages == Append(stored, [role |-> "user", content |-> Text(prompt, <<>>, FALSE)])
        response == Answer(endpoint, "chat", Len(env.sent) + 1)
    IN  IF prompt = "" THEN [env EXCEPT !.session = Put(@, "chat_messages", stored)]
        ELSE [env EXCEPT
                 !.session = Put(@, "chat_messages",
                                 Append(chat_messages,
                                        [role |-> "assistant", content |-> response])),
                 !.sent = Append(@, Request("chat", ChatContents(chat_messages, ai, prompt),
                                            "SYSTEM_PROMPT_CHAT", NoScope, FALSE,
                                            Text("", <<>>, FALSE), "none"))]

\* what the tabs render from session state at the end of the rerun
Shown(ss, attribute_columns) ==
    [wc   |-> ss["fig_wc_display"],
     freq |-> ss["overall_freq_df_display"],
     net  |-> ss["fig_net_display"],
     attribute_freq |-> IF attribute_columns = <<>> THEN NONE
                        ELSE [called |-> TRUE, dfs |-> ss["attribute_freq_dfs_display"]],
     chi2 |-> IF attribute_columns = <<>> THEN NONE
              ELSE [called |-> TRUE, results |-> ss["chi2_results_display"]]]

\* the text the stopword box gives in this rerun: what the widget holds, or
\* the stored string when the box is drawn for the first time
BoxText(ss, stored) ==
    IF "dynamic_sw_input" \in DOMAIN ss THEN ss["dynamic_sw_input"] ELSE stored

\* tab1, tab_sentiment and tab_cluster, one after the other
FirstAiTabs(env, endpoint, attribute_columns) ==
    CHOOSE e \in
        { TabCluster(envB, endpoint, envB.ai) :
          envB \in { TabSentiment(envA, endpoint, envA.ai) :
                     envA \in { TabSummary(env, endpoint, env.ai, attribute_columns) } } } : TRUE

\* tab2, tab3, tab4 and tab6, one after the other (tab5 keeps nothing)
StatisticsTabs(env, rows, font_path, attribute_columns, dyn, sw, word_order) ==
    CHOOSE e \in
        { TabChi2(env4, rows, attribute_columns, dyn, sw, word_order) :
          env4 \in
            { TabNetwork(env3, rows, font_path, sw) :
              env3 \in
                { TabAttributeFrequency(env2, rows, attribute_columns, dyn, sw) :
                  env2 \in
                    { TabFrequency(env1a, rows, sw) :
                      env1a \in
                        { TabAttributeWordCloud(env1, rows, attribute_columns, sw) :
                          env1 \in { TabWordCloud(env, rows, font_path, sw) } } } } } } : TRUE

\* The script from the stopword box to the last tab, run on the session
\* state ss, in which the widgets already hold what the user entered.
\* stored is st.session_state.dynamic_stopwords, requests the requests made
\* so far, prompt the question sent in the chat ("" when none was), endpoint
\* what the AI endpoint answers.  Each step works on the outcome of the
\* step before it.
ScriptBody(ss, cache, rows, stored, font_path, word_order, requests, run_button, prompt, endpoint) ==
    LET attribute_columns == ss["attribute_columns"]
        box  == StopwordBox(ss, stored, BoxText(ss, stored))
        dyn  == box.dynamic_stopwords
        sw   == current_stopwords_set(dyn)
    IN  CHOOSE body \in
            { [session |-> env.session, cache |-> env.cache, dynamic_stopwords |-> dyn,
               sent |-> env.sent,
               display |-> [called |-> TRUE, edited |-> box.edited,
                            run_button |-> run_button, prompt |-> prompt,
                            before_tabs |-> DOMAIN box.session,
                            text |-> BoxText(ss, stored),
                            handed |-> env.handed,
                            ai_input_text |-> env.ai.ai_input_text,
                            shown |-> Shown(env.session, attribute_columns)]] :
              env \in
                { TabChat(env6, endpoint, env6.ai, prompt) :
                  env6 \in
                    { TabAcademic(env5, endpoint, env5.ai, attribute_columns) :
                      env5 \in
                        { StatisticsTabs(envC, rows, font_path, attribute_columns, dyn, sw,
                                         word_order) :
                          envC \in
                            { FirstAiTabs(env0, endpoint, attribute_columns) :
                              env0 \in
                                { [session |-> Put(box.session, "dynamic_sw_input",
                                                   BoxText(ss, stored)),
                                   cache |-> cache, handed |-> {}, sent |-> requests,
                                   ai |-> ai] :
                                  ai \in {AiInput(rows, "text", attribute_columns)} } } } } } }
            : TRUE

\* One rerun on the session state ss with the rows of df_analyzed: the
\* script runs and its outcome is the next state.  word_order is the order
\* in which the words are gone through if the characteristic words are
\* computed.
Rerun(ss, rows, stored, word_order, requests, run_button, prompt, endpoint) ==
    /\ IsOrdering(word_order,
                  all_words(rows, current_stopwords_set(
                                      StopwordBox(ss, stored, BoxText(ss, stored)).dynamic_stopwords)))
    /\ \E body \in {ScriptBody(ss, cache_data, rows, stored, "IPAexGothic", word_order,
                               requests, run_button, prompt, endpoint)} :
           /\ dynamic_stopwords' = body.dynamic_stopwords
           /\ session_state' = body.session
           /\ cache_data' = body.cache
           /\ display' = body.display
           /\ sent' = body.sent
    /\ UNCHANGED <<df_original, value_errors, ai_input_call, plotly_call, api, freq_call, net_call, chi2_call>>

\* "run analysis" is pressed with the attribute columns chosen in the
\* sidebar: the words are extracted, the results of the last run and the
\* stored stopword string are dropped, and the script goes on to the tabs
PressRun(attribute_columns, word_order, endpoint) ==
    /\ words' = [i \in DOMAIN df_original |-> extract_words(df_original[i].text)]
    /\ analyzed' = TRUE
    /\ tokenized' = {i \in DOMAIN df_original : UsesTokenizer(df_original[i].text)}
    /\ \E rows \in {DfAnalyzed(words')} :
           Rerun(Put(Pop(session_state, AnalysisKeys), "attribute_columns", attribute_columns),
                 rows, <<>>, word_order, <<>>, TRUE, "", endpoint)

\* the user changes the text of the stopword box
EditBox(input, word_order, endpoint) ==
    /\ analyzed
    /\ input # session_state["dynamic_sw_input"]
    /\ UNCHANGED <<words, analyzed, tokenized>>
    /\ \E rows \in {df_analyzed} :
           Rerun(Put(session_state, "dynamic_sw_input", input), rows, dynamic_stopwords,
                 word_order, sent, FALSE, "", endpoint)

\* the user selects another attribute for the frequency tables
SelectFreqAttr(col, word_order, endpoint) ==
    /\ analyzed
    /\ col \in Range(session_state["attribute_columns"])
    /\ col # session_state["freq_attr_select"]
    /\ UNCHANGED <<words, analyzed, tokenized>>
    /\ \E rows \in {df_analyzed} :
           Rerun(Put(session_state, "freq_attr_select", col), rows, dynamic_stopwords,
                 word_order, sent, FALSE, "", endpoint)

\* the most chat messages (questions and answers) kept in one run
MaxChatMessages == 4

\* the user sends a question in the chat
Chat(prompt, word_order, endpoint) ==
    /\ analyzed
    /\ prompt # ""
    /\ Len(session_state["chat_messages"]) + 2 <= MaxChatMessages
    /\ UNCHANGED <<words, analyzed, tokenized>>
    /\ \E rows \in {df_analyzed} :
           Rerun(session_state, rows, dynamic_stopwords, word_order, sent, FALSE, prompt,
                 endpoint)

\* a file with another table is uploaded: session state is cleared and the
\* table is stored; what st.cache_data keeps stays
Upload(df) ==
    /\ df # df_original
    /\ df_original' = df
    /\ session_state' = << >>
    /\ analyzed' = FALSE
    /\ words' = <<>>
    /\ dynamic_stopwords' = <<>>
    /\ display' = NONE
    /\ sent' = <<>>
    /\ UNCHANGED <<value_errors, ai_input_call, plotly_call, api, freq_call, net_call, chi2_call, tokenized, cache_data>>

\* Tables with two attribute columns: four rows of category A (group X)
\* that hold "ab" and "ww", four of category B (group Y) that hold "hi"
\* and "ww"; and the same with a row without text and category
Row3(text, attr, group) == [text |-> text, attr |-> attr, group |-> group]

SessionDataSets ==
    LET base == Repeat(Row3(NounText(<<(<<97, 98>>), <<119, 119>>>>), "A", "X"), 4)
                    \o Repeat(Row3(NounText(<<(<<104, 105>>), <<119, 119>>>>), "B", "Y"), 4)
    IN  { base, base \o <<Row3(NotAString, NULL, "X")>> }

\* the choices of the attribute multiselect
AttributeChoices == { <<>>, <<"attr">>, <<"group">>, <<"attr", "group">> }

SessionWords == { <<97, 98>>, <<104, 105>>, <<119, 119>> }

InitSession == InitWith(SessionDataSets)

\* What the endpoint answers to each kind of request.  A JSON answer follows
\* the schema of its request: an object for the clusters, a list for the
\* sentiments.
ClusterJson ==
    [keys |-> {"name", "children"}, name |-> "root",
     children |-> << [keys |-> {"name", "children"}, name |-> "A",
                      children |-> << [keys |-> {"name", "value"}, name |-> "s1", value |-> 3],
                                      [keys |-> {"name", "value"}, name |-> "s2", value |-> 5] >>] >>]

SentimentJson ==
    [keys |-> {},
     items |-> << [keys |-> {"sentiment", "count", "percentage"}, sentiment |-> "positive",
                   count |-> 3, percentage |-> 75],
                  [keys |-> {"sentiment", "count", "percentage"}, sentiment |-> "negative",
                   count |-> 0, percentage |-> 0] >>]

ErrorAnswer == [is_json |-> FALSE, data |-> NoData, text |-> "AI failed (Status)"]

GoodEndpoint ==
    [cluster_json   |-> [is_json |-> TRUE, data |-> ClusterJson, text |-> "text"],
     sentiment_json |-> [is_json |-> TRUE, data |-> SentimentJson, text |-> "text"],
     simple         |-> [is_json |-> FALSE, data |-> NoData, text |-> "text"],
     cluster_text   |-> [is_json |-> FALSE, data |-> NoData, text |-> "text"],
     academic       |-> [is_json |-> FALSE, data |-> NoData, text |-> "text"],
     chat           |-> [is_json |-> FALSE, data |-> NoData, text |-> "text"]]

\* the endpoint answers every request; it fails on the JSON requests; it
\* fails on every request
Endpoints ==
    { GoodEndpoint,
      [GoodEndpoint EXCEPT !.cluster_json = ErrorAnswer, !.sentiment_json = ErrorAnswer],
      [purpose \in DOMAIN GoodEndpoint |-> ErrorAnswer] }

NextSession ==
    \E word_order \in UNION {Orderings(S) : S \in SUBSET SessionWords} :
        \/ \E attribute_columns \in AttributeChoices :
               PressRun(attribute_columns, word_order, GoodEndpoint)
        \/ \E input \in DynInputs : EditBox(input, word_order, GoodEndpoint)
        \/ \E col \in {"attr", "group"} : SelectFreqAttr(col, word_order, GoodEndpoint)

SpecSession == InitSession /\ [][NextSession]_vars

\* The AI tabs and the chat: a table of two categories, with or without
\* the attribute column, three texts of the stopword box, two questions,
\* and an endpoint that may fail
ChatDataSets ==
    { Repeat(Row3(NounText(<<(<<97, 98>>), <<119, 119>>>>), "A", "X"), 2)
          \o Repeat(Row3(NounText(<<(<<104, 105>>), <<119, 119>>>>), "B", "Y"), 2) }

Prompts == { "q1", "q2" }

InitChat == InitWith(ChatDataSets)

NextChat ==
    \E word_order \in UNION {Orderings(S) : S \in SUBSET SessionWords}, endpoint \in Endpoints :
        \/ \E attribute_columns \in { <<>>, <<"attr">> } :
               PressRun(attribute_columns, word_order, endpoint)
        \/ \E input \in DynInputs : EditBox(input, word_order, endpoint)
        \/ \E prompt \in Prompts : Chat(prompt, word_order, endpoint)

SpecChat == InitChat /\ [][NextChat]_vars

\* Uploads: two tables with the same columns whose categories hold each
\* other's words
UploadDataSets ==
    { Repeat(Row3(NounText(<<(<<97, 98>>), <<119, 119>>>>), "A", "X"), 4)
          \o Repeat(Row3(NounText(<<(<<104, 105>>), <<119, 119>>>>), "B", "Y"), 4),
      Repeat(Row3(NounText(<<(<<104, 105>>), <<119, 119>>>>), "A", "X"), 4)
          \o Repeat(Row3(NounText(<<(<<97, 98>>), <<119, 119>>>>), "B", "Y"), 4) }

InitUpload == InitWith(UploadDataSets)

NextUpload ==
    \/ \E df \in UploadDataSets : Upload(df)
    \/ \E word_order \in UNION {Orderings(S) : S \in SUBSET SessionWords} :
           \/ \E attribute_columns \in AttributeChoices :
                  PressRun(attribute_columns, word_order, GoodEndpoint)
           \/ \E input \in DynInputs : EditBox(input, word_order, GoodEndpoint)

SpecUpload == InitUpload /\ [][NextUpload]_vars

-----------------------------------------------------------------------------
(* Properties of the frequency table and of the tokenizer filter           *)

ActiveStopwords == current_stopwords_set(dynamic_stopwords)

\* the positions of the input list that hold a word outside the set
RetainedPositions(words_list, sw) == {i \in DOMAIN words_list : words_list[i] \notin sw}

RetainedWords(words_list, sw) == {words_list[i] : i \in RetainedPositions(words_list, sw)}

FirstAppearance(words_list, w) ==
    CHOOSE i \in DOMAIN words_list :
        words_list[i] = w /\ \A j \in 1..(i - 1) : words_list[j] # w

RECURSIVE SumFrequency(_)
SumFrequency(table) ==
    IF table = <<>> THEN 0 ELSE Head(table).Frequency + SumFrequency(Tail(table))

TableWords(table) == {table[i].Word : i \in DOMAIN table}

\* C3: when top_n is at least the number of distinct retained words, the
\* Frequency column sums to the number of entries of the input list that
\* are not stopwords.
C3_FullTableSum ==
    (freq_call.called
        /\ freq_call.top_n >= Cardinality(RetainedWords(freq_call.words_list, freq_call.stopwords)))
    => SumFrequency(freq_call.table)
           = Cardinality(RetainedPositions(freq_call.words_list, freq_call.stopwords))

\* a full table of two words, one of them counted twice or more entries
\* than words, built from a list that also held a stopword
C3_Witness ==
    /\ freq_call.called
    /\ freq_call.top_n >= Cardinality(RetainedWords(freq_call.words_list, freq_call.stopwords))
    /\ Len(freq_call.table) = 2
    /\ \E i \in DOMAIN freq_call.words_list : freq_call.words_list[i] \in freq_call.stopwords

\* C4: a word of a frequency table built from extract_words' lists is not
\* in the active Stopword Set, is longer than one character and is not
\* purely numeric.
C4_TableWordsClean ==
    freq_call.called
    => \A i \in DOMAIN freq_call.table :
           /\ freq_call.table[i].Word \notin ActiveStopwords
           /\ Len(freq_call.table[i].Word) > 1
           /\ ~isdigit(freq_call.table[i].Word)

\* a non-empty table from a text that held a numeric token, and from a word
\* list that held a word the user added to the stopwords
C4_Witness ==
    /\ freq_call.called
    /\ freq_call.table # <<>>
    /\ \E d \in DOMAIN df_original :
           \E k \in DOMAIN df_original[d].text.tokens :
               isdigit(df_original[d].text.tokens[k].base_form)
    /\ \E i \in DOMAIN freq_call.words_list :
           freq_call.words_list[i] \in dynamic_sw_set(dynamic_stopwords)

C6_Qualifies(token) ==
    /\ token.part_of_speech[1] \in {"noun", "verb", "adjective"}
    /\ \E k \in DOMAIN token.surface : token.surface[k] \notin 48..57
    /\ \E k \in DOMAIN token.base_form : token.base_form[k] \notin 48..57
    /\ Len(token.base_form) >= 2

RECURSIVE C6_Expected(_)
C6_Expected(tokens) ==
    IF tokens = <<>> THEN <<>>
    ELSE IF C6_Qualifies(Head(tokens))
         THEN <<Head(tokens).base_form>> \o C6_Expected(Tail(tokens))
         ELSE C6_Expected(Tail(tokens))

C6_ExtractExactly ==
    analyzed =>
        /\ DOMAIN words = DOMAIN df_original
        /\ \A d \in DOMAIN words : words[d] = C6_Expected(df_original[d].text.tokens)

\* a text whose output repeats a word and leaves a token out
C6_Witness ==
    /\ analyzed
    /\ \E d \in DOMAIN words :
           /\ Len(words[d]) = 2
           /\ words[d][1] = words[d][2]
           /\ Len(df_original[d].text.tokens) = 3
           /\ ~C6_Qualifies(df_original[d].text.tokens[2])

\* C7: the rows are ranked 1..n, in non-increasing frequency, words of equal
\* frequency in order of first appearance in the input, cut to the first
\* top_n rows; no omitted word is more frequent than a listed one.
C7_Ranking ==
    freq_call.called =>
        LET t  == freq_call.table
            wl == freq_call.words_list
            sw == freq_call.stopwords
        IN  /\ \A i \in DOMAIN t : t[i].Rank = i
            /\ Len(t) = Min(freq_call.top_n, Cardinality(RetainedWords(wl, sw)))
            /\ \A i \in DOMAIN t :
                   /\ t[i].Word \in RetainedWords(wl, sw)
                   /\ t[i].Frequency = Occurrences(wl, t[i].Word)
            /\ \A i \in DOMAIN t : \A j \in DOMAIN t :
                   i < j =>
                       \/ t[i].Frequency > t[j].Frequency
                       \/ /\ t[i].Frequency = t[j].Frequency
                          /\ FirstAppearance(wl, t[i].Word) < FirstAppearance(wl, t[j].Word)
            /\ \A w \in RetainedWords(wl, sw) \ TableWords(t) :
                   \A i \in DOMAIN t : Occurrences(wl, w) <= t[i].Frequency

\* a table cut to two rows that leaves a word out, whose two rows tie and
\* stand in order of appearance although the second word sorts first
C7_Witness ==
    /\ freq_call.called
    /\ freq_call.top_n = 2
    /\ Len(freq_call.table) = 2
    /\ RetainedWords(freq_call.words_list, freq_call.stopwords)
           \ TableWords(freq_call.table) # {}
    /\ freq_call.table[1].Frequency = freq_call.table[2].Frequency
    /\ StrLess(freq_call.table[2].Word, freq_call.table[1].Word)

-----------------------------------------------------------------------------
(* Properties of the co-occurrence network                                 *)

\* the unique non-stopword words of document d of the last call
NetRetained(d) == {w \in Range(net_call.words_df[d]) : w \notin net_call.stopwords}

DocsWith(w) == {d \in DOMAIN net_call.words_df : w \in NetRetained(d)}

DocsWithBoth(a, b) == DocsWith(a) \cap DocsWith(b)

NetVocabulary == UNION {NetRetained(d) : d \in DOMAIN net_call.words_df}

\* the unordered pairs of distinct words that share a document
CooccurringPairs ==
    {pr \in {{a, b} : a \in NetVocabulary, b \in NetVocabulary} :
        Cardinality(pr) = 2 /\ \E a \in pr : \E b \in pr : a # b /\ DocsWithBoth(a, b) # {}}

PairDocs(pr) == {d \in DOMAIN net_call.words_df : pr \subseteq NetRetained(d)}

NetKeys == net_call.result.co_occur_counter.keys

NetCnt == net_call.result.co_occur_counter.cnt

NetEdges(result) == IF result.error = NULL THEN result.fig.G.edges ELSE {}

\* C2: the weight of a counted pair is the number of documents whose set of
\* unique non-stopword words holds both words, and at most the number of
\* documents holding either word.
C2_PairWeight ==
    net_call.called =>
        \A i \in DOMAIN NetKeys :
            /\ NetCnt[i] = Cardinality(DocsWithBoth(NetKeys[i][1], NetKeys[i][2]))
            /\ NetCnt[i] <= Cardinality(DocsWith(NetKeys[i][1]))
            /\ NetCnt[i] <= Cardinality(DocsWith(NetKeys[i][2]))

\* a pair of weight 2, one of whose documents repeats a word of the pair,
\* in a call where a stopword was dropped from a document
C2_Witness ==
    /\ net_call.called
    /\ \E i \in DOMAIN NetKeys :
           /\ NetCnt[i] = 2
           /\ \E d \in DocsWithBoth(NetKeys[i][1], NetKeys[i][2]) :
                  Occurrences(net_call.words_df[d], NetKeys[i][2]) = 2
    /\ \E d \in DOMAIN net_call.words_df :
           Range(net_call.words_df[d]) \cap net_call.stopwords # {}

\* C8: every counted pair key has its first word strictly before its second
\* in lexicographic order, no two keys hold the same two words, and the
\* graph has no self-loop.
C8_CanonicalKeys ==
    net_call.called =>
        /\ \A i \in DOMAIN NetKeys : StrLess(NetKeys[i][1], NetKeys[i][2])
        /\ \A i \in DOMAIN NetKeys : \A j \in DOMAIN NetKeys :
               i # j => {NetKeys[i][1], NetKeys[i][2]} # {NetKeys[j][1], NetKeys[j][2]}
        /\ \A e \in NetEdges(net_call.result) : Cardinality(e.ends) = 2

\* a graph was built from a document that lists a later word before an
\* earlier one and repeats a word
C8_Witness ==
    /\ net_call.called
    /\ net_call.result.error = NULL
    /\ \E d \in DOMAIN net_call.words_df :
           /\ Len(net_call.words_df[d]) = 4
           /\ StrLess(net_call.words_df[d][3], net_call.words_df[d][1])
           /\ net_call.words_df[d][1] = net_call.words_df[d][4]

\* C9: the edges are exactly the top 70 pairs by weight: at most 70 edges,
\* each with the weight of its pair, every node an endpoint of an edge, and
\* no pair left out heavier than a pair taken.
C9_TopKEdges ==
    (net_call.called /\ net_call.result.error = NULL) =>
        LET G == net_call.result.fig.G
        IN  /\ Cardinality(G.edges) <= 70
            /\ Cardinality(G.edges) = Min(70, Cardinality(CooccurringPairs))
            /\ \A e \in G.edges :
                   /\ e.ends \in CooccurringPairs
                   /\ e.weight = Cardinality(PairDocs(e.ends))
            /\ \A e \in G.edges : \A f \in G.edges : e.ends = f.ends => e = f
            /\ G.nodes = UNION {e.ends : e \in G.edges}
            /\ \A pr \in CooccurringPairs \ {e.ends : e \in G.edges} :
                   \A e \in G.edges : Cardinality(PairDocs(pr)) <= e.weight

\* more than 70 pairs were counted, 70 edges were built, one of weight 2,
\* and a pair was left out
C9_Witness ==
    /\ net_call.called
    /\ net_call.result.error = NULL
    /\ Cardinality(CooccurringPairs) > 70
    /\ Cardinality(net_call.result.fig.G.edges) = 70
    /\ \E e \in net_call.result.fig.G.edges : e.weight = 2

\* the documents of the last call in another order
Reordered(perm) == [i \in DOMAIN net_call.words_df |-> net_call.words_df[perm[i]]]

\* C10 as stated: the edge set depends only on the pairs and their weights,
\* so the same documents in any order give the same edge set.
C10_Original ==
    net_call.called =>
        \A perm \in Permutations(DOMAIN net_call.words_df) :
            NetEdges(generate_network(Reordered(perm), "IPAexGothic", net_call.stopwords))
                = NetEdges(net_call.result)

\* the order in which two pairs are first counted: by the first document
\* that holds both words, then by the pairs' own order in that document
FirstDoc(key) ==
    CHOOSE d \in PairDocs({key[1], key[2]}) : \A e \in PairDocs({key[1], key[2]}) : d <= e

CountedBefore(p, q) ==
    \/ FirstDoc(p) < FirstDoc(q)
    \/ FirstDoc(p) = FirstDoc(q) /\ PairLess(p, q)

Heavier(p, q) ==
    \/ Cardinality(PairDocs({p[1], p[2]})) > Cardinality(PairDocs({q[1], q[2]}))
    \/ /\ Cardinality(PairDocs({p[1], p[2]})) = Cardinality(PairDocs({q[1], q[2]}))
       /\ CountedBefore(p, q)

\* C10 amended: for a given sequence of documents the selection is fixed:
\* the pairs are taken by falling weight, pairs of equal weight in the order
\* in which they were first counted (document order, then the order of the
\* pairs inside the document); a heaviest pair is always taken.
C10_TieBreakByFirstCount ==
    net_call.called =>
        LET tp  == net_call.result.top_pairs
            sel == {tp[i][1] : i \in DOMAIN tp}
        IN  /\ Len(tp) = Min(70, Len(NetKeys))
            /\ sel \subseteq Range(NetKeys)
            /\ \A i \in DOMAIN tp : \A j \in DOMAIN tp : i < j => Heavier(tp[i][1], tp[j][1])
            /\ \A p \in sel : \A q \in Range(NetKeys) \ sel : Heavier(p, q)
            /\ NetKeys # <<>> =>
                   \E p \in sel : \A q \in Range(NetKeys) :
                       Cardinality(PairDocs({p[1], p[2]})) >= Cardinality(PairDocs({q[1], q[2]}))

\* more than 70 pairs competed, and a pair was taken although a pair of the
\* same weight that sorts before it was left out
C10_Witness ==
    /\ net_call.called
    /\ Len(NetKeys) > 70
    /\ LET tp  == net_call.result.top_pairs
           sel == {tp[i][1] : i \in DOMAIN tp}
       IN  \E p \in sel : \E q \in Range(NetKeys) \ sel :
               /\ Cardinality(PairDocs({p[1], p[2]})) = Cardinality(PairDocs({q[1], q[2]}))
               /\ PairLess(q, p)

-----------------------------------------------------------------------------
(* Properties of the characteristic words                                  *)

Chi2Done == chi2_call.called /\ chi2_call.result.error = NULL

Chi2Results == chi2_call.result.results

\* the documents of the table handed to the call whose category is (or is
\* not) V and whose token list holds (or does not hold) W
CellDocs(V, W, inV, holdsW) ==
    Cardinality({i \in DOMAIN chi2_call.df :
                    /\ (chi2_call.df[i][chi2_call.attribute_col] = V) = inV
                    /\ (W \in Range(chi2_call.df[i].words)) = holdsW})

\* a * N > (a + b) * (a + c): a is above its expected count (a+b)(a+c)/N
AboveExpected(V, W) ==
    LET a == CellDocs(V, W, TRUE, TRUE)
        b == CellDocs(V, W, FALSE, TRUE)
        c == CellDocs(V, W, TRUE, FALSE)
    IN  a * Len(chi2_call.df) > (a + b) * (a + c)

\* the test of the 2x2 table of V and W
TestOf(V, W) ==
    chi2_contingency(CellDocs(V, W, TRUE, TRUE), CellDocs(V, W, FALSE, TRUE),
                     CellDocs(V, W, TRUE, FALSE), CellDocs(V, W, FALSE, FALSE))

NoZeroMarginal(V, W) ==
    /\ CellDocs(V, W, TRUE, TRUE) + CellDocs(V, W, FALSE, TRUE) > 0
    /\ CellDocs(V, W, TRUE, TRUE) + CellDocs(V, W, TRUE, FALSE) > 0
    /\ CellDocs(V, W, FALSE, TRUE) + CellDocs(V, W, FALSE, FALSE) > 0
    /\ CellDocs(V, W, TRUE, FALSE) + CellDocs(V, W, FALSE, FALSE) > 0

\* the words outside the stopword set of the call that stand in a document
Chi2Vocabulary ==
    UNION {Range(chi2_call.df[i].words) : i \in DOMAIN chi2_call.df} \ chi2_call.stopwords

\* the words the retention rule keeps for V
RetainedFor(V) ==
    {W \in Chi2Vocabulary :
        NoZeroMarginal(V, W) /\ PBelow05(TestOf(V, W).p) /\ AboveExpected(V, W)}

ListedWords(k) == {Chi2Results[k].words[j].word : j \in DOMAIN Chi2Results[k].words}

Chi2Tables == chi2_call.result.tables

\* the documents of the table handed to the call whose category is (or is
\* not) V; a document without a category is not of V
CategoryDocs(V, inV) ==
    Cardinality({i \in DOMAIN chi2_call.df :
                    (chi2_call.df[i][chi2_call.attribute_col] = V) = inV})

InResult(V, W) ==
    \E k \in DOMAIN Chi2Results :
        Chi2Results[k].attr_value = V /\ W \in ListedWords(k)

InEveryDocument ==
    {W \in Chi2Vocabulary : \A i \in DOMAIN chi2_call.df : W \in Range(chi2_call.df[i].words)}

\* the words that stand in every document that has a category
InEveryCategoryDocument ==
    {W \in Chi2Vocabulary :
        \A i \in DOMAIN chi2_call.df :
            chi2_call.df[i][chi2_call.attribute_col] # NULL => W \in Range(chi2_call.df[i].words)}

ColumnMissing ==
    \E i \in DOMAIN chi2_call.df : chi2_call.attribute_col \notin DOMAIN chi2_call.df[i]

\* the distinct non-null values of the chosen column
DistinctCategories ==
    {chi2_call.df[i][chi2_call.attribute_col] : i \in DOMAIN chi2_call.df} \ {NULL}

-----------------------------------------------------------------------------
(* Degenerate inputs                                                       *)

\* the different words of document d that are outside the stopword set of
\* the network call
WordsLeft(d) == Range(net_call.words_df[d]) \ net_call.stopwords

\* C15: when no document keeps two different words after the stopword
\* filter (in particular when every document keeps fewer than two words),
\* generate_network returns the 'insufficient co-occurrence pairs' message
\* and no figure, and returns before the graph is built or drawn.
C15_NoPairsNoGraph ==
    (net_call.called /\ \A d \in DOMAIN net_call.words_df : Cardinality(WordsLeft(d)) < 2) =>
        /\ net_call.result.error = "insufficient co-occurrence pairs"
        /\ net_call.result.fig = NULL
        /\ net_call.result.stages = <<"count", "select">>

\* The call was made on two documents with words, one of which holds two
\* different words before the stopword filter and one after it, and has
\* returned the message.
C15_Witness ==
    /\ net_call.called
    /\ Len(net_call.words_df) = 2
    /\ \A d \in DOMAIN net_call.words_df : Cardinality(WordsLeft(d)) = 1
    /\ \E d \in DOMAIN net_call.words_df : Cardinality(Range(net_call.words_df[d])) = 2
    /\ net_call.result.error = "insufficient co-occurrence pairs"

\* C16: calculate_frequency called with no word, or with words that are all
\* in the stopword set, returns a table without rows that has the columns
\* Rank, Word, Frequency.
C16_EmptyTable ==
    (freq_call.called /\ \A i \in DOMAIN freq_call.words_list :
                             freq_call.words_list[i] \in freq_call.stopwords) =>
        /\ freq_call.table = <<>>
        /\ freq_call.columns = <<"Rank", "Word", "Frequency">>

\* The call was made with words, all of them stopwords and one of them a
\* word the user added, and has returned the empty table.
C16_Witness ==
    /\ freq_call.called
    /\ freq_call.words_list # <<>>
    /\ \A i \in DOMAIN freq_call.words_list : freq_call.words_list[i] \in freq_call.stopwords
    /\ \E i \in DOMAIN freq_call.words_list : freq_call.words_list[i] \notin BASE_STOPWORDS
    /\ freq_call.table = <<>>

\* The call was made without any word and has returned the empty table.
C16_WitnessNoWords ==
    /\ freq_call.called
    /\ freq_call.words_list = <<>>
    /\ freq_call.table = <<>>

\* C17: for a cell that is null or holds another value that is not a
\* string, extract_words returns the empty list and the tokenizer is not
\* called on it.
C17_NonStringGivesNoWords ==
    analyzed =>
        \A d \in DOMAIN df_original :
            ~df_original[d].text.is_str => words[d] = <<>> /\ d \notin tokenized

\* The analysis ran on a null cell and on a number beside each other.
C17_Witness ==
    /\ analyzed
    /\ \E d \in DOMAIN df_original, e \in DOMAIN df_original :
           /\ df_original[d].text = NotAString
           /\ df_original[e].text = NumberCell
           /\ words[d] = <<>> /\ words[e] = <<>>

\* The analysis ran on a null cell beside a text that gave a word.
C17_WitnessBesideText ==
    /\ analyzed
    /\ \E d \in DOMAIN df_original, e \in DOMAIN df_original :
           /\ df_original[d].text = NotAString
           /\ words[e] # <<>>
           /\ tokenized = {e}

-----------------------------------------------------------------------------
(* Properties of the result tabs                                           *)

\* the entries of a comma-separated text: for every stretch between two
\* neighbouring commas (or an end of the text), what is left of it without
\* the blanks at its ends, unless nothing is left
EntriesOf(text) ==
    LET bounds == {0, Len(text) + 1} \cup {k \in DOMAIN text : text[k] = 44}
        Inner(l, r) == {k \in (l + 1)..(r - 1) : text[k] \notin {9, 10, 13, 32}}
    IN  { SubSeq(text, CHOOSE k \in Inner(b[1], b[2]) : \A m \in Inner(b[1], b[2]) : k <= m,
                       CHOOSE k \in Inner(b[1], b[2]) : \A m \in Inner(b[1], b[2]) : k >= m) :
          b \in {c \in bounds \X bounds :
                    /\ c[1] < c[2]
                    /\ \A k \in bounds : ~(c[1] < k /\ k < c[2])
                    /\ Inner(c[1], c[2]) # {}} }

\* C18: in every rerun each of the computations called (word cloud,
\* frequency, network, characteristic words) is handed the baseline list
\* united with the trimmed non-empty entries of the text of the stopword
\* box; every baseline stopword is in the set whatever the text is.
C18_ActiveStopwordSet ==
    display.called =>
        \A h \in display.handed :
            /\ h.stopwords = { <<110>>, <<107, 111>>, <<115, 117>> } \cup EntriesOf(display.text)
            /\ h.stopwords = { <<110>>, <<107, 111>>, <<115, 117>> } \cup EntriesOf(dynamic_stopwords)

\* A rerun with a text that has blanks and an empty entry called all four
\* computations.
C18_Witness ==
    /\ display.called
    /\ display.text = <<32, 97, 98, 44, 32, 44, 104, 105>>
    /\ {h.fn : h \in display.handed}
           = {"generate_wordcloud", "calculate_frequency", "generate_network",
              "calculate_characteristic_words"}

\* the session keys that hold a computed result of a statistical tab
ResultKeys ==
    { "fig_wc_display", "overall_freq_df_display", "attribute_freq_dfs_display",
      "fig_net_display", "chi2_results_display" }

\* the stopword set in force at the end of the rerun
SessionStopwords ==
    { <<110>>, <<107, 111>>, <<115, 117>> } \cup EntriesOf(dynamic_stopwords)

\* the results the tabs other than the characteristic words show were
\* computed with the stopword set in force
OtherTabsFresh ==
    display.called =>
        /\ display.shown.wc.sw = SessionStopwords
        /\ display.shown.freq.sw = SessionStopwords
        /\ display.shown.net.sw = SessionStopwords
        /\ display.shown.attribute_freq.called
               => display.shown.attribute_freq.dfs.sw = SessionStopwords

\* in the rerun of an edit of the stopword box no computed result is left
\* in session state when the tabs begin
DroppedTogether ==
    display.called /\ display.edited => display.before_tabs \cap ResultKeys = {}

\* C19: an edit of the stopword box drops the cached word cloud, frequency
\* tables, network and characteristic words together before the tabs are
\* rendered, and after any edits and selections every result a tab shows
\* from session state was computed with the stopword set in force.
C19_NoStaleResultShown ==
    /\ DroppedTogether
    /\ OtherTabsFresh
    /\ (display.called /\ display.shown.chi2.called)
           => display.shown.chi2.results.sw = SessionStopwords

\* C20: the characteristic words shown after a rerun are those computed
\* with the stopword set in force, and no member of that set is among them.
C20_RecomputedForStopwords ==
    (display.called /\ display.shown.chi2.called) =>
        LET r == display.shown.chi2.results
        IN  /\ r.sw = SessionStopwords
            /\ \A k \in DOMAIN r.value.results : \A j \in DOMAIN r.value.results[k].words :
                   r.value.results[k].words[j].word \notin SessionStopwords

\* An edit of the stopword box was handled while results were in session
\* state, and the tabs show results again.
StaleCaseReached ==
    /\ display.called /\ display.edited
    /\ dynamic_stopwords # <<>>
    /\ display.shown.chi2.called
    /\ display.shown.attribute_freq.called

\* the call was made on a table in which every document has one of exactly
\* two categories
TwoCategoriesNoNull ==
    /\ Chi2Done
    /\ \A i \in DOMAIN chi2_call.df : chi2_call.df[i][chi2_call.attribute_col] # NULL
    /\ Cardinality({chi2_call.df[i][chi2_call.attribute_col] : i \in DOMAIN chi2_call.df}) = 2

RaisedFor(V) ==
    {W \in Chi2Vocabulary :
        /\ NoZeroMarginal(V, W)
        /\ [word |-> W,
            table |-> [a |-> CellDocs(V, W, TRUE, TRUE), b |-> CellDocs(V, W, FALSE, TRUE),
                       c |-> CellDocs(V, W, TRUE, FALSE), d |-> CellDocs(V, W, FALSE, FALSE)]]
               \in value_errors}

\* C21: a ValueError of the test for one word and category passes over that
\* pair only: the call returns no error, a list for every category, and in
\* each list the words the retention rule keeps whose test did not raise.
C21_ErrorSkipsOnePair ==
    Chi2Done =>
        /\ {Chi2Results[k].attr_value : k \in DOMAIN Chi2Results} = DistinctCategories
        /\ \A k \in DOMAIN Chi2Results :
               ListedWords(k) = RetainedFor(Chi2Results[k].attr_value)
                                    \ RaisedFor(Chi2Results[k].attr_value)

\* The test raised for a word the rule would keep for a category; another
\* word of that category and a word of the other category are returned.
C21_Witness ==
    /\ Chi2Done
    /\ \E k \in DOMAIN Chi2Results : \E l \in DOMAIN Chi2Results :
           /\ k # l
           /\ RetainedFor(Chi2Results[k].attr_value) \cap RaisedFor(Chi2Results[k].attr_value) # {}
           /\ ListedWords(k) # {}
           /\ ListedWords(l) # {}

-----------------------------------------------------------------------------
(* Properties of call_gemini_api                                           *)

\* 429 or a status from 500 on
TriedAgain(status_code) == status_code = 429 \/ status_code >= 500

\* 2^n
RECURSIVE Pow2(_)
Pow2(n) == IF n = 0 THEN 1 ELSE 2 * Pow2(n - 1)

\* the message is one of the error strings
IsErrorString(result) == result.is_str /\ result.message \notin {"text", "none"}

\* C22: at most 5 requests are sent; no request follows a response with
\* status 200; a request follows a response only when its status is 429 or
\* at least 500, after a sleep of 1, 2, 4, 8 seconds (doubling with each such
\* response); a response with any other status ends the call at once with
\* an error string.
C22_RetryPolicy ==
    /\ Len(api.posts) <= 5
    /\ \A k \in DOMAIN api.posts :
           /\ k < Len(api.posts) => api.posts[k] # 200 /\ TriedAgain(api.posts[k])
           /\ api.slept_before[k] = k - 1
           /\ api.posts[k] # 200 /\ ~TriedAgain(api.posts[k])
                  => k = Len(api.posts) /\ api.pc = "returned" /\ IsErrorString(api.result)
    /\ \A j \in DOMAIN api.sleeps : api.sleeps[j] = Pow2(j - 1)

\* the part of the policy that concerns the statuses from 400 on and 200
RetryPolicyForErrorStatuses ==
    /\ Len(api.posts) <= 5
    /\ \A k \in DOMAIN api.posts :
           /\ k < Len(api.posts) => api.posts[k] # 200
           /\ k < Len(api.posts) /\ api.posts[k] >= 400 => TriedAgain(api.posts[k])
           /\ api.slept_before[k] = Cardinality({h \in 1..(k - 1) : TriedAgain(api.posts[h])})
           /\ api.posts[k] >= 400 /\ ~TriedAgain(api.posts[k])
                  => k = Len(api.posts) /\ api.pc = "returned" /\ IsErrorString(api.result)
    /\ \A j \in DOMAIN api.sleeps : api.sleeps[j] = Pow2(j - 1)

\* A response with a status below 400 other than 200 was followed by a
\* further request.
RetryAfterOtherStatus ==
    \E k \in DOMAIN api.posts :
        k < Len(api.posts) /\ api.posts[k] \in 1..399 /\ api.posts[k] # 200

\* C29: the call ends with a string and without an exception for its
\* caller: without a usable key the key message and no request; after 5
\* responses with 429 or a status from 500 on the failure message with the
\* last status; for a body without candidates, content, parts or text the
\* message of that case; for an exception of the request or of the parsing
\* an error message.
C29_AlwaysReturnsString ==
    api.pc = "returned" =>
        /\ ~api.result.raised /\ api.result.is_str
        /\ api.secret \in {"missing", "empty"}
               => api.posts = <<>> /\ api.result.message = "GEMINI_API_KEY is not set"
        /\ api.secret = "key" => api.posts # <<>>
        /\ Len(api.posts) = 5 /\ (\A k \in DOMAIN api.posts : TriedAgain(api.posts[k]))
               => api.result.message = "AI failed (Status)" /\ api.result.detail = api.posts[5]
        /\ api.posts # <<>> /\ api.posts[Len(api.posts)] = 0 => IsErrorString(api.result)
        /\ api.posts # <<>> /\ api.posts[Len(api.posts)] = 200 =>
               /\ ~api.body.is_json \/ ~api.body.is_object => IsErrorString(api.result)
               /\ api.body.is_object /\ api.body.candidates = <<>>
                      => api.result.message = "candidates is missing"
               /\ api.body.candidates # <<>> /\ api.body.candidates[1].parts = <<>>
                      => api.result.message = "content or parts is missing"
               /\ api.body.candidates # <<>> /\ api.body.candidates[1].parts = << <<>> >>
                      => api.result.message = "empty response"
               /\ api.body.candidates # <<>> /\ api.body.candidates[1].parts = << <<111, 107>> >>
                      => api.result.message = "text" /\ api.result.detail = <<111, 107>>

\* Five responses with 429 or a status from 500 on were received and the
\* call has returned.
C29_Witness ==
    /\ api.pc = "returned"
    /\ Len(api.posts) = 5
    /\ \A k \in DOMAIN api.posts : TriedAgain(api.posts[k])
    /\ api.sleeps = <<1, 2, 4, 8, 16>>

\* The call has returned without a request because the key is empty.
C29_WitnessEmptyKey ==
    api.pc = "returned" /\ api.secret = "empty" /\ api.posts = <<>>

-----------------------------------------------------------------------------
(* Properties of the treemap lists                                         *)

TreeDone == plotly_call.called /\ plotly_call.result.error = NULL

TreeFig == plotly_call.result.fig

TreeData == plotly_call.json_data_str.data

\* the nodes the lists are to describe, each with its parent and value: the
\* root with 0, every cluster with 1 (no sub-topics) or 0, and every
\* sub-topic with a value above 0 with that value
ExpectedNodes ==
    LET root == IF "name" \in TreeData.keys THEN TreeData.name ELSE "All"
    IN  { <<root, "", 0>> }
        \cup { <<TreeData.children[k].name, root,
                 IF TreeData.children[k].children = <<>> THEN 1 ELSE 0>> :
                   k \in DOMAIN TreeData.children }
        \cup UNION { { <<TreeData.children[k].children[i].name, TreeData.children[k].name,
                         TreeData.children[k].children[i].value>> :
                         i \in {h \in DOMAIN TreeData.children[k].children :
                                   /\ "value" \in TreeData.children[k].children[h].keys
                                   /\ TreeData.children[k].children[h].value > 0} } :
                     k \in DOMAIN TreeData.children }

\* the three lists have one length
SameLength ==
    TreeDone => Len(TreeFig.labels) = Len(TreeFig.parents)
                    /\ Len(TreeFig.labels) = Len(TreeFig.values)

\* the labels and the parents taken together are those of the expected nodes
LabelsAndParents ==
    TreeDone =>
        {<<TreeFig.labels[i], TreeFig.parents[i]>> : i \in DOMAIN TreeFig.labels}
            = {<<n[1], n[2]>> : n \in ExpectedNodes}

\* C23: the three lists have one length, and at every position the value is
\* that of the node named by the label and the parent at that position: 0
\* for the root and for a cluster with sub-topics, 1 for a cluster without
\* sub-topics, its own value for a sub-topic; sub-topics whose value is not
\* above 0 are in none of the lists.
C23_ParallelLists ==
    TreeDone =>
        /\ Len(TreeFig.labels) = Len(TreeFig.parents)
        /\ Len(TreeFig.labels) = Len(TreeFig.values)
        /\ {<<TreeFig.labels[i], TreeFig.parents[i], TreeFig.values[i]>> :
               i \in DOMAIN TreeFig.labels} = ExpectedNodes

-----------------------------------------------------------------------------
(* Properties of the text handed to the AI                                 *)

AiResult == ai_input_call.result

\* the formatted row i of the call, with its line end
FormattedRow(i) ==
    format_for_ai(ai_input_call.rows[i], i - 1, "text", ai_input_call.attribute_columns)
        \o Chars(<<10>>)

\* the characters of a string one by one would be too many to write out:
\* two strings are compared run by run after joining neighbouring runs of
\* one character
RECURSIVE Joined(_, _)
Joined(string, acc) ==
    IF string = <<>> THEN acc
    ELSE IF Head(string).n = 0 THEN Joined(Tail(string), acc)
    ELSE IF acc # <<>> /\ acc[Len(acc)].c = Head(string).c
    THEN Joined(Tail(string),
                [acc EXCEPT ![Len(acc)] = [c |-> Head(string).c, n |-> @.n + Head(string).n]])
    ELSE Joined(Tail(string), Append(acc, Head(string)))

\* the number of characters of the first k formatted rows
RECURSIVE PrefixLength(_)
PrefixLength(k) == IF k = 0 THEN 0 ELSE PrefixLength(k - 1) + len(FormattedRow(k))

\* C24: the text for the AI is the first analyzed_items formatted rows in
\* row order, one after the other; it has at most 1,000,000 characters;
\* analyzed_items is at most total_items; when it is less, the next row
\* would take the text over the limit; and the scope instruction names
\* analyzed_items as a part of total_items exactly when it is less.
C24_PrefixWithinLimit ==
    ai_input_call.called =>
        LET k == AiResult.analyzed_items
        IN  /\ AiResult.total_items = Len(ai_input_call.rows)
            /\ k \in 0..AiResult.total_items
            /\ Joined(AiResult.ai_input_text, <<>>)
                   = Joined(Flatten([i \in 1..k |-> FormattedRow(i)]), <<>>)
            /\ len(AiResult.ai_input_text) = PrefixLength(k)
            /\ len(AiResult.ai_input_text) <= 1000000
            /\ k < AiResult.total_items => PrefixLength(k + 1) > 1000000
            /\ (AiResult.analysis_scope_instr.scope = "first rows") = (k < AiResult.total_items)
            /\ AiResult.analysis_scope_instr.total_items = AiResult.total_items
            /\ AiResult.analysis_scope_instr.provided = k

\* The text fills the limit to the last character with two rows, and a
\* third row, which alone would fit, is left out.
C24_Witness ==
    /\ ai_input_call.called
    /\ AiResult.analyzed_items = 2
    /\ AiResult.total_items = 3
    /\ len(AiResult.ai_input_text) = 1000000
    /\ len(FormattedRow(3)) < 100

\* The first row alone is over the limit: no row is handed to the AI.
C24_WitnessNoRow ==
    /\ ai_input_call.called
    /\ AiResult.analyzed_items = 0
    /\ AiResult.total_items > 1
    /\ AiResult.analysis_scope_instr.scope = "first rows"

-----------------------------------------------------------------------------
(* Properties of the AI tabs and of the chat                               *)

\* the session keys of the AI results and of the chat
AiKeys ==
    { "ai_result_simple", "ai_result_academic", "ai_result_cluster_json",
      "ai_result_cluster_text", "ai_result_sentiment_json", "fig_treemap_display",
      "fig_sentiment_pie_display", "chat_messages" }

\* C25: the rerun that handles an edit of the stopword box leaves the AI
\* results (the two summaries, the cluster JSON and its interpretation,
\* the sentiment JSON, the treemap and the pie chart) and the chat
\* messages in session state as they were, and makes no request to the AI
\* endpoint.
C25_EditLeavesAiResults ==
    [][ (display'.called /\ display'.edited /\ ~display'.run_button)
            => /\ \A k \in AiKeys :
                      /\ k \in DOMAIN session_state
                      /\ k \in DOMAIN session_state'
                      /\ session_state'[k] = session_state[k]
               /\ sent' = sent ]_vars

\* An edit was handled after a question had been answered in the chat: the
\* statistics were computed again, the AI results are there.
C25_Witness ==
    /\ display.called /\ display.edited /\ ~display.run_button
    /\ display.handed # {}
    /\ Len(session_state["chat_messages"]) >= 2
    /\ AiKeys \subseteq DOMAIN session_state
    /\ Len(sent) >= 6

\* the positions in the log of the requests of one kind
RequestsFor(purpose) == {k \in DOMAIN sent : sent[k].purpose = purpose}

\* the messages before the new question go out in the order and with the
\* roles in which they are stored, and the question is the last message,
\* from the user
ChatOrderKept ==
    display.called =>
        \A k \in RequestsFor("chat") :
            LET contents == sent[k].contents
                chat_messages == session_state["chat_messages"]
                n == Len(contents)
            IN  /\ n >= 1 /\ n < Len(chat_messages)
                /\ \A j \in 1..n :
                       /\ contents[j].role
                              = (IF chat_messages[j].role = "user" THEN "user" ELSE "model")
                       /\ contents[j].text.text = chat_messages[j].content.text
                       /\ contents[j].text.serial = chat_messages[j].content.serial
                /\ chat_messages[n].role = "user"
                /\ chat_messages[n + 1].role = "assistant"
                /\ chat_messages[n + 1].content.serial = k

\* the request carries the formatted rows
ContextProvided(request) ==
    \E j \in DOMAIN request.contents :
        /\ request.contents[j].role = "user"
        /\ request.contents[j].text.framed
        /\ request.contents[j].text.context = display.ai_input_text

\* the request of the first question of a run carries the formatted rows
ContextOnFirstTurn ==
    display.called =>
        \A k \in RequestsFor("chat") : Len(sent[k].contents) = 1 => ContextProvided(sent[k])

\* C26: the request of every chat turn carries the formatted rows, the
\* earlier messages in their order, and the new question as the last
\* message of the user.
C26_ContextOnEveryTurn ==
    /\ ChatOrderKept
    /\ display.called => \A k \in RequestsFor("chat") : ContextProvided(sent[k])

\* A second question was sent in one run.
SecondTurnReached ==
    /\ display.called
    /\ \E k \in RequestsFor("chat") : Len(sent[k].contents) = 3

\* C28: since the last press of 'run analysis' the cluster JSON was
\* requested at most once; the string in session state is the answer to that
\* request, an error string included; the requests of the summary, of the
\* interpretation of the clusters and of the academic summary carry that
\* string, and the treemap is made of it.
C28_ClusterJsonAskedOnce ==
    display.called =>
        LET stored == session_state["ai_result_cluster_json"]
        IN  /\ Cardinality(RequestsFor("cluster_json")) <= 1
            /\ \A k \in RequestsFor("cluster_json") : stored.serial = k
            /\ \A k \in DOMAIN sent :
                   sent[k].purpose \in {"simple", "cluster_text", "academic"}
                       => sent[k].system_instruction.json_data = stored
            /\ session_state["fig_treemap_display"] = create_plotly_treemap(stored).fig

\* The answer to the request of the cluster JSON was an error string; the
\* three tabs made their requests, and a later rerun of the same run has
\* been through the tabs again.
C28_Witness ==
    /\ display.called /\ ~display.run_button
    /\ ~session_state["ai_result_cluster_json"].is_json
    /\ session_state["ai_result_cluster_json"].text = "AI failed (Status)"
    /\ \A purpose \in {"cluster_json", "simple", "cluster_text", "academic"} :
           RequestsFor(purpose) # {}

-----------------------------------------------------------------------------
(* Properties of the results after an upload                               *)

\* the rows with the value val of the column col
RowsOf(col, val) == SelectSeq(df_analyzed, LAMBDA r : r[col] = val)

\* the results of the statistical tabs other than the characteristic words
\* are those of the table in session state
OtherTabsOfCurrentData ==
    display.called =>
        LET shown == display.shown
        IN  /\ shown.wc.value
                   = generate_wordcloud(WordsOf(df_analyzed), "IPAexGothic", shown.wc.sw).fig
            /\ shown.freq.value
                   = calculate_frequency(WordsOf(df_analyzed), shown.freq.sw, DEFAULT_TOP_N)
            /\ shown.net.value
                   = generate_network([i \in DOMAIN df_analyzed |-> df_analyzed[i].words],
                                      "IPAexGothic", shown.net.sw)
            /\ shown.attribute_freq.called =>
                   LET col == session_state["attribute_freq_col_display"]
                       dfs == shown.attribute_freq.dfs
                   IN  /\ DOMAIN dfs.value = {df_analyzed[i][col] : i \in DOMAIN df_analyzed} \ {NULL}
                       /\ \A val \in DOMAIN dfs.value :
                              dfs.value[val] = calculate_frequency(WordsOf(RowsOf(col, val)),
                                                                   dfs.sw, DEFAULT_TOP_N)

\* every request that hands rows to the AI hands the rows of the table in
\* session state
AiRequestsOfCurrentData ==
    display.called =>
        \A k \in DOMAIN sent :
            sent[k].purpose \in {"cluster_json", "simple", "sentiment_json", "academic"}
                => sent[k].contents[1].text.context = display.ai_input_text

\* C27: after an upload of another file or a press of 'run analysis' every
\* result shown, the characteristic words included, is computed from the
\* table uploaded last and the columns of the last run, also when the
\* columns have the names they had before.
C27_ResultsOfCurrentData ==
    /\ OtherTabsOfCurrentData
    /\ AiRequestsOfCurrentData
    /\ (display.called /\ display.shown.chi2.called) =>
           LET r == display.shown.chi2.results
           IN  \E word_order \in Orderings(all_words(df_analyzed, r.sw)) :
                   r.value = calculate_characteristic_words(
                                 df_analyzed, session_state["attribute_columns"][1], "text",
                                 r.sw, word_order)

\* 'run analysis' was pressed on a table uploaded in place of another one
\* for which characteristic words of the same columns had been computed.
UploadCaseReached ==
    /\ display.called /\ display.shown.chi2.called
    /\ \E key \in DOMAIN cache_data :
           /\ key[1] = session_state["attribute_columns"][1]
           /\ \A word_order \in Orderings(all_words(df_analyzed, cache_data[key].sw)) :
                  cache_data[key].value
                      # calculate_characteristic_words(df_analyzed, key[1], "text",
                                                       cache_data[key].sw, word_order)

====
